---------------------------- MODULE Spec2Model ----------------------------
(***************************************************************************)
(* rust-finger: the statistics store (src/src/stats.rs), the input         *)
(* listener that feeds it (src/src/listener.rs), the dashboard that reads  *)
(* and also feeds it (src/src/ui/dashboard.rs) and the threads that save   *)
(* it (src/src/main.rs).                                                   *)
(*                                                                         *)
(* Time is an integer number of milliseconds (Instant::now()).  The local  *)
(* wall clock (chrono::Local::now()) is derived from it.  Option<T> is a   *)
(* sequence of length 0 (None) or 1 (Some).  A HashMap is a function whose *)
(* DOMAIN is the set of keys present.                                      *)
(***************************************************************************)
EXTENDS Integers, Sequences, FiniteSets, TLC

(***************************************************************************)
(* Bounds of the model                                                     *)
(***************************************************************************)
\* record_* calls and MouseMove events begun
MaxCalls == 3
\* save() calls of the periodic thread
MaxSaves == 2
\* snapshot() calls
MaxSnaps == 2
\* process starts after the first one
MaxRestarts == 1
\* the instant (ms) at which the local date changes
Midnight == 60

\* the instants (ms) at which the clock is observed
TimePoints == {0, 10, 60, 70}

(***************************************************************************)
(* Program constants                                                       *)
(***************************************************************************)
\* Duration::from_millis(50), stats.rs:241 and :259
DedupWindowMs == 50
\* Duration::from_secs(60), stats.rs:73 and :113
WpmWindowMs == 60000
\* i64 is modelled as a two's-complement word of I64Bits bits
I64Bits == 16

Threads == {"adapter", "ui", "timer", "ctrlc"}
\* threads that submit events: the rdev callback and the dashboard handlers
Producers == {"adapter", "ui"}
\* threads that call save(): the periodic thread, the Ctrl-C handler, main
Savers == {"timer", "ctrlc", "ui"}

\* labels key_to_string produces (listener.rs:84) and the dashboard's
\* on_key_down produces (dashboard.rs:67)
KeyLabels(p) == IF p = "adapter" THEN {"A"} ELSE {"A", "Left"}
\* labels button_to_string produces (listener.rs:192) and the dashboard's
\* on_mouse_down handlers pass (dashboard.rs:81)
ButtonLabels(p) == IF p = "adapter" THEN {"Left", "Right"} ELSE {"Left"}

VARIABLES
    clock,          \* Instant::now(), ms
    stats,          \* StatsManager.stats: the Stats inside the RwLock
    stats_lock,     \* the RwLock around it: writer, readers, poisoned
    last_key,       \* StatsManager.last_key
    last_click,     \* StatsManager.last_click
    guards,         \* the guards each thread holds of the RwLocks around
                    \* last_key, last_click and last_error
    last_pos,       \* the listener callback's last_pos
    listener_active,\* StatsManager.listener_active
    last_error,     \* StatsManager.last_error
    events,         \* history: the (kind, local date) of every recorded event
    key_times,      \* history: the instants at which Stats::record_key ran
    pc,             \* where each thread is
    t_now,          \* a record_* call's `now`
    t_arg,          \* a call's argument: a label, or a distance or delta
    t_hour,         \* Stats::record_key's and record_click's `hour`
    t_json,         \* save()'s `json`
    t_off,          \* how much of `json` fs::write has written
    t_src,          \* history: the Stats `json` was made from
    t_res,          \* history: what each save() call of a thread returned
    stats_snapshot, \* Dashboard.stats_snapshot
    wpm,            \* the typing speed render last computed, as <<n, d>>
                    \* for n / d
    top,            \* the last top_keys call of the dashboard: its n and
                    \* the list it returned
    file,           \* the content of data_path
    phase,          \* "running", "exited" (exit or return of main) or
                    \* "aborted"
    log,            \* history: the candidates in the order they met their gate
    t_idx,          \* history: the log entry of a thread's call in flight
    saved,          \* history: the Stats the content of the file was made from
    build,          \* "debug" (overflow checks), "release", or "any" while
                    \* nothing has depended on it
    ncalls, nsaves, nsnaps, nrestarts

store_vars == <<stats, stats_lock, last_key, last_click>>
listener_vars == <<listener_active, last_error>>
hist_vars == <<events, key_times>>
rec_locals == <<t_now, t_arg, t_idx>>
save_locals == <<t_json, t_off, t_src, t_res>>
thread_vars == <<pc, rec_locals, save_locals>>
disk_vars == <<file, saved>>
count_vars == <<ncalls, nsaves, nsnaps, nrestarts>>
vars == <<clock, guards, t_hour, store_vars, last_pos, listener_vars, hist_vars, thread_vars, stats_snapshot, disk_vars,
          wpm, top, phase, log, build, count_vars>>

None == <<>>
Some(x) == <<x>>
IsSome(o) == Len(o) = 1
Unwrap(o) == o[1]

EmptyMap == [k \in {} |-> 0]
\* a counter that restarts at 1 on every event
IncrReset(m, k) == [j \in DOMAIN m \cup {k} |-> IF j = k THEN 1 ELSE m[j]]
\* *map.entry(k).or_insert(0) += 1
Incr(m, k) ==
    IF k \in DOMAIN m THEN [m EXCEPT ![k] = @ + 1] ELSE m @@ (k :> 1)
\* map.get(k).unwrap_or(0)
Get(m, k) == IF k \in DOMAIN m THEN m[k] ELSE 0

(***************************************************************************)
(* chrono::Local::now(): the process runs across one midnight              *)
(***************************************************************************)
LocalHour(t) == IF t < Midnight THEN 23 ELSE 0
LocalDate(t) == IF t < Midnight THEN "2024-01-01" ELSE "2024-01-02"

\* Instant::duration_since saturates at zero
DurationSince(later, earlier) ==
    IF later >= earlier THEN later - earlier ELSE 0

(***************************************************************************)
(* Stats (stats.rs:10-163)                                                 *)
(***************************************************************************)
DefaultDailyStats == [total_keys |-> 0, total_clicks |-> 0, total_distance |-> 0]

\* #[derive(Default)] for Stats
DefaultStats ==
    [key_counts |-> EmptyMap, mouse_clicks |-> EmptyMap,
     mouse_distance |-> 0, scroll_distance |-> 0,
     hourly_key_counts |-> EmptyMap, hourly_click_counts |-> EmptyMap,
     daily_stats |-> EmptyMap, session_start |-> None, recent_keys |-> <<>>]

\* Stats::new
NewStats(now) == [DefaultStats EXCEPT !.session_start = Some(now)]

\* a map that keeps the entry of the current date only
PutDailyOnly(m, date, d) == [k \in {date} |-> d]
\* daily_stats.entry(date).or_insert_with(DailyStats::default)
DailyEntry(m, date) == IF date \in DOMAIN m THEN m[date] ELSE DefaultDailyStats
PutDaily(m, date, d) ==
    [k \in DOMAIN m \cup {date} |-> IF k = date THEN d ELSE m[k]]

\* a record_key that never prunes
RetainAll(keys, now) == keys
\* recent_keys.retain(|t| now.duration_since(*t) < 60 s)
Retain(keys, now) ==
    SelectSeq(keys, LAMBDA t : DurationSince(now, t) < WpmWindowMs)

\* a record_key that leaves the hourly counts alone
Stats_record_key_no_hour(s, key_name, now) ==
    LET date == LocalDate(now)
        d == DailyEntry(s.daily_stats, date)
    IN  [s EXCEPT
            !.key_counts = Incr(@, key_name),
            !.daily_stats = PutDaily(@, date, [d EXCEPT !.total_keys = @ + 1]),
            !.recent_keys = Append(Retain(@, now), now)]
\* Stats::record_key
Stats_record_key(s, key_name, now) ==
    LET date == LocalDate(now)
        d == DailyEntry(s.daily_stats, date)
    IN  [s EXCEPT
            !.key_counts = Incr(@, key_name),
            !.hourly_key_counts = Incr(@, LocalHour(now)),
            !.daily_stats = PutDaily(@, date, [d EXCEPT !.total_keys = @ + 1]),
            !.recent_keys = Append(Retain(@, now), now)]

\* a record_click that counts the click in the day's total_keys
Stats_record_click_as_key(s, button, now) ==
    LET date == LocalDate(now)
        d == DailyEntry(s.daily_stats, date)
    IN  [s EXCEPT
            !.mouse_clicks = Incr(@, button),
            !.hourly_click_counts = Incr(@, LocalHour(now)),
            !.daily_stats = PutDaily(@, date, [d EXCEPT !.total_keys = @ + 1])]
\* Stats::record_click
Stats_record_click(s, button, now) ==
    LET date == LocalDate(now)
        d == DailyEntry(s.daily_stats, date)
    IN  [s EXCEPT
            !.mouse_clicks = Incr(@, button),
            !.hourly_click_counts = Incr(@, LocalHour(now)),
            !.daily_stats = PutDaily(@, date, [d EXCEPT !.total_clicks = @ + 1])]

\* a record_movement that keeps the last distance instead of the sum
Stats_record_movement_last(s, distance, now) ==
    LET date == LocalDate(now)
        d == DailyEntry(s.daily_stats, date)
    IN  [s EXCEPT
            !.mouse_distance = distance,
            !.daily_stats =
                PutDaily(@, date, [d EXCEPT !.total_distance = distance])]
\* Stats::record_movement
Stats_record_movement(s, distance, now) ==
    LET date == LocalDate(now)
        d == DailyEntry(s.daily_stats, date)
    IN  [s EXCEPT
            !.mouse_distance = @ + distance,
            !.daily_stats =
                PutDaily(@, date, [d EXCEPT !.total_distance = @ + distance])]

\* the i64 range, and two's-complement wrapping into it
I64Min == -(2 ^ (I64Bits - 1))
I64Max == 2 ^ (I64Bits - 1) - 1
WrapI64(n) == ((n - I64Min) % (2 ^ I64Bits)) + I64Min
InI64(n) == I64Min <= n /\ n <= I64Max

\* Stats::record_scroll: scroll_distance += delta.abs().  With overflow
\* checks either overflow panics; without them the value wraps.
ScrollAbs(delta) == IF delta < 0 THEN -delta ELSE delta
ScrollOverflows(s, delta) ==
    \/ ~InI64(ScrollAbs(delta))
    \/ ~InI64(s.scroll_distance + ScrollAbs(delta))
Stats_record_scroll(s, delta) ==
    [s EXCEPT !.scroll_distance = WrapI64(@ + WrapI64(ScrollAbs(delta)))]

\* Stats::current_wpm: the entries of recent_keys less than 60 s old,
\* divided by 5.0
keys_in_minute(s, now) ==
    Len(SelectSeq(s.recent_keys, LAMBDA t : DurationSince(now, t) < WpmWindowMs))
\* a typing speed that counts every entry of recent_keys
current_wpm_all(s, now) == <<Len(s.recent_keys), 5>>
current_wpm(s, now) == <<keys_in_minute(s, now), 5>>

(***************************************************************************)
(* The RwLock around Stats                                                 *)
(***************************************************************************)
\* RwLock::write() returns once no other guard exists
CanWrite(l) == l.writer = None /\ l.readers = {}
\* RwLock::read() returns once no write guard exists
CanRead(l) == l.writer = None
FreeLock == [writer |-> None, readers |-> {}, poisoned |-> FALSE]

(***************************************************************************)
(* The dedup gate (stats.rs:239-246, 257-264)                              *)
(***************************************************************************)
\* a gate whose window includes its end (<= instead of <)
DedupHitInclusive(last, name, now) ==
    /\ IsSome(last)
    /\ Unwrap(last).name = name
    /\ DurationSince(now, Unwrap(last).time) <= DedupWindowMs
\* a gate that does not compare the labels
DedupHitAnyLabel(last, name, now) ==
    /\ IsSome(last)
    /\ DurationSince(now, Unwrap(last).time) < DedupWindowMs
\* a gate that compares the candidate only with a remembered one stamped
\* no later than it
DedupHitOlderOnly(last, name, now) ==
    /\ IsSome(last)
    /\ Unwrap(last).name = name
    /\ now >= Unwrap(last).time
    /\ now - Unwrap(last).time < DedupWindowMs
\* if let Some((last_name, last_time)) = &*last {
\*     if last_name == &name && now.duration_since(*last_time) < 50 ms
DedupHit(last, name, now) ==
    /\ IsSome(last)
    /\ Unwrap(last).name = name
    /\ DurationSince(now, Unwrap(last).time) < DedupWindowMs

\* a gate that remembers suppressed candidates too
GateNextAlways(last, name, now) == Some([name |-> name, time |-> now])
\* *last = Some((name.clone(), now)), unless the candidate is a duplicate
GateNext(last, name, now) ==
    IF DedupHit(last, name, now) THEN last
                                 ELSE Some([name |-> name, time |-> now])

Running == phase = "running"

LogEntry(ch, name, t, acc, p) ==
    [ch |-> ch, name |-> name, t |-> t, acc |-> acc,
     done |-> ~acc, counted |-> FALSE]

(***************************************************************************)
(* StatsManager::record_key and record_click (stats.rs:236-269)            *)
(***************************************************************************)
\* the argument of a call that takes a label, and of one that takes a number
LabelArg(name) == [label |-> name, amount |-> 0]
AmountArg(n) == [label |-> "", amount |-> n]

\* `let now = Instant::now()` of record_key (to = "rk_gate") and of
\* record_click (to = "rc_gate")
GatedBegin(p, name, to) ==
    /\ Running /\ pc[p] = "idle" /\ ncalls < MaxCalls
    /\ pc' = [pc EXCEPT ![p] = to]
    /\ t_now' = [t_now EXCEPT ![p] = clock]
    /\ t_arg' = [t_arg EXCEPT ![p] = LabelArg(name)]
    /\ ncalls' = ncalls + 1
    /\ UNCHANGED <<clock, guards, t_hour, store_vars, last_pos, listener_vars, hist_vars, t_idx, save_locals,
                   stats_snapshot, wpm, top, disk_vars, phase, log, build,
                   nsaves, nsnaps, nrestarts>>

\* the rdev callback's KeyPress arm (listener.rs:42) and the dashboard's
\* on_key_down (dashboard.rs:67) call record_key
RecordKeyBegin(p, key_name) == GatedBegin(p, key_name, "rk_gate")

\* the block under last_key.write(): a duplicate returns, anything else is
\* remembered
RecordKeyGate(p) ==
    /\ Running /\ pc[p] = "rk_gate"
    /\ LET hit == DedupHit(last_key, t_arg[p].label, t_now[p])
       IN  /\ log' = Append(log, LogEntry("key", t_arg[p].label, t_now[p], ~hit, p))
           /\ t_idx' = [t_idx EXCEPT ![p] = Len(log) + 1]
           /\ last_key' = GateNext(last_key, t_arg[p].label, t_now[p])
           /\ pc' = [pc EXCEPT ![p] = IF hit THEN "idle" ELSE "rk_lock"]
    /\ UNCHANGED <<clock, guards, t_hour, stats, stats_lock, last_click, last_pos, listener_vars, hist_vars, t_now,
                   t_arg, save_locals, stats_snapshot, wpm, top, disk_vars, phase,
                   build, count_vars>>

\* a record_* call that does not wait for the lock
WriteLockUnguarded(p, from, to) ==
    /\ Running /\ pc[p] = from
    /\ pc' = [pc EXCEPT ![p] = to]
    /\ stats_lock' = [stats_lock EXCEPT !.writer = Some(p)]
    /\ UNCHANGED <<clock, guards, t_hour, stats, last_key, last_click, last_pos, listener_vars, hist_vars, rec_locals,
                   save_locals, stats_snapshot, wpm, top, disk_vars, phase, log,
                   build, count_vars>>

\* `if let Ok(mut stats) = self.stats.write()` of the record_* call at
\* `from`: on a poisoned lock the call returns
WriteLock(p, from, to) ==
    /\ Running /\ pc[p] = from
    /\ CanWrite(stats_lock)
    /\ IF stats_lock.poisoned
         THEN /\ pc' = [pc EXCEPT ![p] = "idle"]
              /\ log' = IF from \in {"rk_lock", "rc_lock"}
                          THEN [log EXCEPT ![t_idx[p]].done = TRUE]
                          ELSE log
              /\ UNCHANGED stats_lock
         ELSE /\ pc' = [pc EXCEPT ![p] = to]
              /\ stats_lock' = [stats_lock EXCEPT !.writer = Some(p)]
              /\ UNCHANGED log
    /\ UNCHANGED <<clock, guards, t_hour, stats, last_key, last_click, last_pos, listener_vars, hist_vars, rec_locals,
                   save_locals, stats_snapshot, wpm, top, disk_vars, phase,
                   build, count_vars>>

RecordKeyLock(p) == WriteLock(p, "rk_lock", "rk_write")

\* the kind of event the record_* call at `from` records
KindOf(from) ==
    CASE from = "rk_write" -> "key"
      [] from = "rc_write" -> "click"
      [] from = "rm_write" -> "movement"
      [] from = "rs_write" -> "scroll"

\* a store whose snapshots share the aggregate's maps instead of copying them
WriteBackAliased(p, from, s) ==
    /\ Running /\ pc[p] = from
    /\ stats' = s
    /\ stats_snapshot' = s
    /\ stats_lock' = [stats_lock EXCEPT !.writer = None]
    /\ pc' = [pc EXCEPT ![p] = "idle"]
    /\ log' = IF from \in {"rk_write", "rc_write"}
                THEN [log EXCEPT ![t_idx[p]].done = TRUE,
                                 ![t_idx[p]].counted = TRUE]
                ELSE log
    /\ events' = events \cup {[kind |-> KindOf(from), date |-> LocalDate(clock)]}
    /\ key_times' = IF from = "rk_write" THEN Append(key_times, clock)
                                          ELSE key_times
    /\ UNCHANGED <<clock, guards, t_hour, last_key, last_click, last_pos, listener_vars,
                   rec_locals, wpm, top, save_locals, disk_vars, phase, count_vars>>

\* the end of a record_* call at `from`: the aggregate becomes s and the
\* write guard is dropped
WriteBack(p, from, s) ==
    /\ Running /\ pc[p] = from
    /\ stats' = s
    /\ stats_lock' = [stats_lock EXCEPT !.writer = None]
    /\ pc' = [pc EXCEPT ![p] = "idle"]
    /\ log' = IF from \in {"rk_write", "rc_write"}
                THEN [log EXCEPT ![t_idx[p]].done = TRUE,
                                 ![t_idx[p]].counted = TRUE]
                ELSE log
    /\ events' = events \cup {[kind |-> KindOf(from), date |-> LocalDate(clock)]}
    /\ key_times' = IF from = "rk_write" THEN Append(key_times, clock)
                                          ELSE key_times
    /\ UNCHANGED <<clock, guards, t_hour, last_key, last_click, last_pos, listener_vars,
                   rec_locals, save_locals, stats_snapshot, wpm, top, disk_vars, phase,
                   count_vars>>

\* stats.record_key(key_name)
RecordKeyWrite(p) ==
    /\ WriteBack(p, "rk_write", Stats_record_key(stats, t_arg[p].label, clock))
    /\ UNCHANGED build

\* the callback's ButtonPress arm (listener.rs:49) and the dashboard's
\* on_mouse_down (dashboard.rs:81) call record_click
RecordClickBegin(p, button) == GatedBegin(p, button, "rc_gate")

\* a record_click that uses the key channel's cell
RecordClickGateShared(p) ==
    /\ Running /\ pc[p] = "rc_gate"
    /\ LET hit == DedupHit(last_key, t_arg[p].label, t_now[p])
       IN  /\ log' = Append(log, LogEntry("click", t_arg[p].label, t_now[p], ~hit, p))
           /\ t_idx' = [t_idx EXCEPT ![p] = Len(log) + 1]
           /\ last_key' = GateNext(last_key, t_arg[p].label, t_now[p])
           /\ pc' = [pc EXCEPT ![p] = IF hit THEN "idle" ELSE "rc_lock"]
    /\ UNCHANGED <<clock, guards, t_hour, stats, stats_lock, last_click, last_pos, listener_vars, hist_vars, t_now,
                   t_arg, save_locals, stats_snapshot, wpm, top, disk_vars, phase,
                   build, count_vars>>

\* the block under last_click.write()
RecordClickGate(p) ==
    /\ Running /\ pc[p] = "rc_gate"
    /\ LET hit == DedupHit(last_click, t_arg[p].label, t_now[p])
       IN  /\ log' = Append(log, LogEntry("click", t_arg[p].label, t_now[p], ~hit, p))
           /\ t_idx' = [t_idx EXCEPT ![p] = Len(log) + 1]
           /\ last_click' = GateNext(last_click, t_arg[p].label, t_now[p])
           /\ pc' = [pc EXCEPT ![p] = IF hit THEN "idle" ELSE "rc_lock"]
    /\ UNCHANGED <<clock, guards, t_hour, stats, stats_lock, last_key, last_pos, listener_vars, hist_vars, t_now, t_arg,
                   save_locals, stats_snapshot, wpm, top, disk_vars, phase,
                   build, count_vars>>

RecordClickLock(p) == WriteLock(p, "rc_lock", "rc_write")

\* stats.record_click(button)
RecordClickWrite(p) ==
    /\ WriteBack(p, "rc_write", Stats_record_click(stats, t_arg[p].label, clock))
    /\ UNCHANGED build

(***************************************************************************)
(* The listener callback's MouseMove and Wheel arms (listener.rs:56-67),   *)
(* StatsManager::record_movement and record_scroll (stats.rs:272-283)      *)
(***************************************************************************)
\* positions the hook reports
Positions == {<<0, 0>>, <<3, 4>>}
\* (dx * dx + dy * dy).sqrt(), exact on Positions
Sqrt(n) == CHOOSE r \in 0..n : r * r = n
Distance(a, b) ==
    Sqrt((b[1] - a[1]) * (b[1] - a[1]) + (b[2] - a[2]) * (b[2] - a[2]))

\* a callback whose baseline starts at the origin
MouseMoveFromOrigin(pos) ==
    /\ Running /\ pc["adapter"] = "idle" /\ ncalls < MaxCalls
    /\ last_pos' = Some(pos)
    /\ ncalls' = ncalls + 1
    /\ pc' = [pc EXCEPT !["adapter"] = "rm_lock"]
    /\ t_arg' = [t_arg EXCEPT !["adapter"] =
                    AmountArg(Distance(IF IsSome(last_pos) THEN Unwrap(last_pos)
                                                           ELSE <<0, 0>>, pos))]
    /\ UNCHANGED <<clock, guards, t_hour, store_vars, listener_vars, hist_vars, t_now, t_idx,
                   save_locals, stats_snapshot, wpm, top, disk_vars, phase,
                   log, build, nsaves, nsnaps, nrestarts>>

\* MouseMove: the first report only sets last_pos
MouseMove(pos) ==
    /\ Running /\ pc["adapter"] = "idle" /\ ncalls < MaxCalls
    /\ last_pos' = Some(pos)
    /\ ncalls' = ncalls + 1
    /\ IF IsSome(last_pos)
         THEN /\ pc' = [pc EXCEPT !["adapter"] = "rm_lock"]
              /\ t_arg' = [t_arg EXCEPT !["adapter"] =
                              AmountArg(Distance(Unwrap(last_pos), pos))]
         ELSE UNCHANGED <<pc, t_arg>>
    /\ UNCHANGED <<clock, guards, t_hour, store_vars, listener_vars, hist_vars, t_now, t_idx,
                   save_locals, stats_snapshot, wpm, top, disk_vars, phase, log, build,
                   nsaves, nsnaps, nrestarts>>

RecordMovementLock == WriteLock("adapter", "rm_lock", "rm_write")

\* stats.record_movement(distance)
RecordMovementWrite ==
    /\ WriteBack("adapter", "rm_write",
                 Stats_record_movement(stats, t_arg["adapter"].amount, clock))
    /\ UNCHANGED build

\* deltas the hook reports
ScrollDeltas == {-5, 3, I64Min}

\* Wheel: record_scroll(delta_y)
Wheel(delta_y) ==
    /\ Running /\ pc["adapter"] = "idle" /\ ncalls < MaxCalls
    /\ pc' = [pc EXCEPT !["adapter"] = "rs_lock"]
    /\ t_arg' = [t_arg EXCEPT !["adapter"] = AmountArg(delta_y)]
    /\ ncalls' = ncalls + 1
    /\ UNCHANGED <<clock, guards, t_hour, store_vars, last_pos, listener_vars, hist_vars, t_now, t_idx, save_locals,
                   stats_snapshot, wpm, top, disk_vars, phase, log, build,
                   nsaves, nsnaps, nrestarts>>

RecordScrollLock == WriteLock("adapter", "rs_lock", "rs_write")

\* stats.record_scroll(delta) without a panic
RecordScrollWrite ==
    /\ pc["adapter"] = "rs_write"
    /\ IF ScrollOverflows(stats, t_arg["adapter"].amount)
         THEN build \in {"any", "release"} /\ build' = "release"
         ELSE UNCHANGED build
    /\ WriteBack("adapter", "rs_write",
                 Stats_record_scroll(stats, t_arg["adapter"].amount))

\* stats.record_scroll(delta) panics on overflow: the write guard is
\* dropped while unwinding, which poisons the lock, and the listener
\* thread ends
RecordScrollPanic ==
    /\ Running /\ pc["adapter"] = "rs_write"
    /\ ScrollOverflows(stats, t_arg["adapter"].amount)
    /\ build \in {"any", "debug"} /\ build' = "debug"
    /\ stats_lock' = [stats_lock EXCEPT !.writer = None, !.poisoned = TRUE]
    /\ pc' = [pc EXCEPT !["adapter"] = "dead"]
    /\ UNCHANGED <<clock, guards, t_hour, stats, last_key, last_click, last_pos, listener_vars, hist_vars, rec_locals,
                   save_locals, stats_snapshot, wpm, top, disk_vars, phase, log,
                   count_vars>>

\* the same panic, when unwinding out of the hook's callback aborts the
\* process instead
RecordScrollAbort ==
    /\ Running /\ pc["adapter"] = "rs_write"
    /\ ScrollOverflows(stats, t_arg["adapter"].amount)
    /\ build \in {"any", "debug"} /\ build' = "debug"
    /\ phase' = "aborted"
    /\ UNCHANGED <<clock, guards, t_hour, store_vars, last_pos, listener_vars, hist_vars, thread_vars, stats_snapshot, wpm, top,
                   disk_vars, log, count_vars>>

\* the callback's arm for an event it does not count: the event is
\* delivered and the callback returns
Ignored ==
    /\ Running /\ pc["adapter"] = "idle" /\ ncalls < MaxCalls
    /\ ncalls' = ncalls + 1
    /\ UNCHANGED <<clock, guards, t_hour, store_vars, last_pos, listener_vars, hist_vars,
                   thread_vars, stats_snapshot, wpm, top, disk_vars, phase, log,
                   build, nsaves, nsnaps, nrestarts>>

\* a callback that counts the release of a key as a press
KeyReleaseCounted ==
    /\ Running /\ pc["adapter"] = "idle" /\ ncalls < MaxCalls
    /\ CanWrite(stats_lock)
    /\ stats' = Stats_record_key(stats, "A", clock)
    /\ ncalls' = ncalls + 1
    /\ UNCHANGED <<clock, guards, t_hour, stats_lock, last_key, last_click, last_pos,
                   listener_vars, hist_vars, thread_vars, stats_snapshot, wpm, top,
                   disk_vars, phase, log, build, nsaves, nsnaps, nrestarts>>

\* EventType::KeyRelease(_) => {} (listener.rs:46)
KeyRelease == Ignored

\* EventType::ButtonRelease(_) => {} (listener.rs:53)
ButtonRelease == Ignored

(***************************************************************************)
(* The listener thread outside its callback (listener.rs:71-78)            *)
(***************************************************************************)
\* stats_clone.set_listener_active(true), then listen(callback) waits for
\* events
ListenerStart ==
    /\ Running /\ pc["adapter"] = "spawned"
    /\ listener_active' = TRUE
    /\ pc' = [pc EXCEPT !["adapter"] = "idle"]
    /\ UNCHANGED <<clock, guards, t_hour, store_vars, last_pos, last_error, hist_vars,
                   rec_locals, save_locals, stats_snapshot, wpm, top, disk_vars, phase,
                   log, build, count_vars>>

\* a listener that leaves the flag set when listen fails
ListenFailsKeepsFlag ==
    /\ Running /\ pc["adapter"] = "idle"
    /\ pc' = [pc EXCEPT !["adapter"] = "ls_err"]
    /\ UNCHANGED <<clock, guards, t_hour, store_vars, last_pos, listener_vars, hist_vars,
                   rec_locals, save_locals, stats_snapshot, wpm, top, disk_vars,
                   phase, log, build, count_vars>>

\* listen(callback) returns Err(error): set_listener_active(false)
ListenFails ==
    /\ Running /\ pc["adapter"] = "idle"
    /\ listener_active' = FALSE
    /\ pc' = [pc EXCEPT !["adapter"] = "ls_err"]
    /\ UNCHANGED <<clock, guards, t_hour, store_vars, last_pos, last_error, hist_vars,
                   rec_locals, save_locals, stats_snapshot, wpm, top, disk_vars, phase,
                   log, build, count_vars>>

\* set_listener_error(format!("{:?}", error)); the thread then ends
ListenError ==
    /\ Running /\ pc["adapter"] = "ls_err"
    /\ last_error' = Some("error")
    /\ pc' = [pc EXCEPT !["adapter"] = "failed"]
    /\ UNCHANGED <<clock, guards, t_hour, store_vars, last_pos, listener_active, hist_vars,
                   rec_locals, save_locals, stats_snapshot, wpm, top, disk_vars, phase,
                   log, build, count_vars>>

\* StatsManager::is_listener_active and get_listener_error
is_listener_active == listener_active
get_listener_error == last_error

(***************************************************************************)
(* Stats::record_key, record_click and record_movement statement by        *)
(* statement (stats.rs:56-100).  The write guard is held from the first    *)
(* statement to the last, and the clock may advance between two of them.   *)
(***************************************************************************)
\* a statement of a Stats method that is not its last: the aggregate
\* becomes s and the thread goes on to `to`
Statement(p, from, to, s) ==
    /\ Running /\ pc[p] = from
    /\ stats' = s
    /\ pc' = [pc EXCEPT ![p] = to]
    /\ UNCHANGED <<clock, guards, stats_lock, last_key, last_click, last_pos,
                   listener_vars, key_times, rec_locals, save_locals,
                   stats_snapshot, wpm, top, disk_vars, phase, log, build,
                   count_vars>>

\* the last statement of a Stats method: the aggregate becomes s, the
\* method returns and the record_* call drops the write guard
LastStatement(p, from, s) ==
    /\ Running /\ pc[p] = from
    /\ stats' = s
    /\ stats_lock' = [stats_lock EXCEPT !.writer = None]
    /\ pc' = [pc EXCEPT ![p] = "idle"]
    /\ log' = IF from \in {"rk_recent", "rc_day"}
                THEN [log EXCEPT ![t_idx[p]].done = TRUE,
                                 ![t_idx[p]].counted = TRUE]
                ELSE log
    /\ key_times' = IF from = "rk_recent" THEN Append(key_times, clock)
                                           ELSE key_times
    /\ UNCHANGED <<clock, guards, t_hour, last_key, last_click, last_pos,
                   listener_vars, rec_locals, save_locals, stats_snapshot,
                   wpm, top, disk_vars, phase, build, count_vars>>

\* *self.key_counts.entry(key_name).or_insert(0) += 1 (stats.rs:58)
RecordKeyCount(p) ==
    /\ Statement(p, "rk_write", "rk_hour",
                 [stats EXCEPT !.key_counts = Incr(@, t_arg[p].label)])
    /\ UNCHANGED <<t_hour, events>>

\* let hour = Local::now().hour() as u8;
\* *self.hourly_key_counts.entry(hour).or_insert(0) += 1 (stats.rs:61-62)
RecordKeyHour(p) ==
    /\ Statement(p, "rk_hour", "rk_day",
                 [stats EXCEPT !.hourly_key_counts = Incr(@, LocalHour(clock))])
    /\ t_hour' = [t_hour EXCEPT ![p] = LocalHour(clock)]
    /\ UNCHANGED events

\* let date = Local::now().format("%Y-%m-%d").to_string();
\* self.daily_stats.entry(date).or_insert_with(..).total_keys += 1
\* (stats.rs:65-69)
RecordKeyDay(p) ==
    LET date == LocalDate(clock)
        d == DailyEntry(stats.daily_stats, date)
    IN  /\ Statement(p, "rk_day", "rk_recent",
                     [stats EXCEPT !.daily_stats =
                         PutDaily(@, date, [d EXCEPT !.total_keys = @ + 1])])
        /\ events' = events \cup {[kind |-> "key", date |-> date]}
        /\ UNCHANGED t_hour

\* let now = Instant::now(); self.recent_keys.retain(..);
\* self.recent_keys.push(now) (stats.rs:72-74)
RecordKeyRecent(p) ==
    /\ LastStatement(p, "rk_recent",
                     [stats EXCEPT !.recent_keys = Append(Retain(@, clock), clock)])
    /\ UNCHANGED events

\* *self.mouse_clicks.entry(button).or_insert(0) += 1 (stats.rs:79)
RecordClickCount(p) ==
    /\ Statement(p, "rc_write", "rc_hour",
                 [stats EXCEPT !.mouse_clicks = Incr(@, t_arg[p].label)])
    /\ UNCHANGED <<t_hour, events>>

\* let hour = ..; *self.hourly_click_counts.entry(hour).or_insert(0) += 1
\* (stats.rs:81-82)
RecordClickHour(p) ==
    /\ Statement(p, "rc_hour", "rc_day",
                 [stats EXCEPT !.hourly_click_counts = Incr(@, LocalHour(clock))])
    /\ t_hour' = [t_hour EXCEPT ![p] = LocalHour(clock)]
    /\ UNCHANGED events

\* let date = ..; self.daily_stats.entry(date)...total_clicks += 1
\* (stats.rs:84-88)
RecordClickDay(p) ==
    LET date == LocalDate(clock)
        d == DailyEntry(stats.daily_stats, date)
    IN  /\ LastStatement(p, "rc_day",
                         [stats EXCEPT !.daily_stats =
                             PutDaily(@, date, [d EXCEPT !.total_clicks = @ + 1])])
        /\ events' = events \cup {[kind |-> "click", date |-> date]}

\* self.mouse_distance += distance (stats.rs:93)
RecordMovementAdd ==
    /\ Statement("adapter", "rm_write", "rm_day",
                 [stats EXCEPT !.mouse_distance = @ + t_arg["adapter"].amount])
    /\ UNCHANGED <<t_hour, events>>

\* let date = ..; self.daily_stats.entry(date)...total_distance += distance
\* (stats.rs:95-99)
RecordMovementDay ==
    LET date == LocalDate(clock)
        d == DailyEntry(stats.daily_stats, date)
    IN  /\ LastStatement("adapter", "rm_day",
                         [stats EXCEPT !.daily_stats =
                             PutDaily(@, date,
                                 [d EXCEPT !.total_distance = @ + t_arg["adapter"].amount])])
        /\ events' = events \cup {[kind |-> "movement", date |-> date]}

(***************************************************************************)
(* The guards of last_key, last_click and last_error (stats.rs:206-218,    *)
(* 239-246, 257-264), step by step                                         *)
(***************************************************************************)
\* RwLock::write() on last_key, last_click or last_error returns once no
\* other guard of that lock exists
Unheld(l) == \A q \in Threads : l \notin guards[q]

\* `if let Ok(mut last) = self.last_key.write()` (from = "rk_gate", l =
\* "last_key") and `.. self.last_click.write()` (from = "rc_gate")
GateLock(p, from, to, l) ==
    /\ Running /\ pc[p] = from
    /\ Unheld(l)
    /\ guards' = [guards EXCEPT ![p] = @ \cup {l}]
    /\ pc' = [pc EXCEPT ![p] = to]
    /\ UNCHANGED <<clock, t_hour, store_vars, last_pos, listener_vars,
                   hist_vars, rec_locals, save_locals, stats_snapshot, wpm,
                   top, disk_vars, phase, log, build, count_vars>>

\* a record_key that keeps its guard of last_key when it goes on to the
\* aggregate
RecordKeyCheckKeepsGuard(p) ==
    /\ Running /\ pc[p] = "rk_check"
    /\ LET hit == DedupHit(last_key, t_arg[p].label, t_now[p])
       IN  /\ log' = Append(log, LogEntry("key", t_arg[p].label, t_now[p], ~hit, p))
           /\ t_idx' = [t_idx EXCEPT ![p] = Len(log) + 1]
           /\ last_key' = GateNext(last_key, t_arg[p].label, t_now[p])
           /\ pc' = [pc EXCEPT ![p] = IF hit THEN "idle" ELSE "rk_lock"]
           /\ guards' = [guards EXCEPT ![p] = IF hit THEN @ \ {"last_key"} ELSE @]
    /\ UNCHANGED <<clock, t_hour, stats, stats_lock, last_click, last_pos,
                   listener_vars, hist_vars, t_now, t_arg, save_locals,
                   stats_snapshot, wpm, top, disk_vars, phase, build,
                   count_vars>>

\* the block under the guard of last_key (stats.rs:240-245); the guard is
\* dropped at the return of line 242 or at the end of the block, line 246
RecordKeyCheck(p) ==
    /\ Running /\ pc[p] = "rk_check"
    /\ LET hit == DedupHit(last_key, t_arg[p].label, t_now[p])
       IN  /\ log' = Append(log, LogEntry("key", t_arg[p].label, t_now[p], ~hit, p))
           /\ t_idx' = [t_idx EXCEPT ![p] = Len(log) + 1]
           /\ last_key' = GateNext(last_key, t_arg[p].label, t_now[p])
           /\ pc' = [pc EXCEPT ![p] = IF hit THEN "idle" ELSE "rk_lock"]
    /\ guards' = [guards EXCEPT ![p] = @ \ {"last_key"}]
    /\ UNCHANGED <<clock, t_hour, stats, stats_lock, last_click, last_pos,
                   listener_vars, hist_vars, t_now, t_arg, save_locals,
                   stats_snapshot, wpm, top, disk_vars, phase, build,
                   count_vars>>

\* the block under the guard of last_click (stats.rs:258-263)
RecordClickCheck(p) ==
    /\ Running /\ pc[p] = "rc_check"
    /\ LET hit == DedupHit(last_click, t_arg[p].label, t_now[p])
       IN  /\ log' = Append(log, LogEntry("click", t_arg[p].label, t_now[p], ~hit, p))
           /\ t_idx' = [t_idx EXCEPT ![p] = Len(log) + 1]
           /\ last_click' = GateNext(last_click, t_arg[p].label, t_now[p])
           /\ pc' = [pc EXCEPT ![p] = IF hit THEN "idle" ELSE "rc_lock"]
    /\ guards' = [guards EXCEPT ![p] = @ \ {"last_click"}]
    /\ UNCHANGED <<clock, t_hour, stats, stats_lock, last_key, last_pos,
                   listener_vars, hist_vars, t_now, t_arg, save_locals,
                   stats_snapshot, wpm, top, disk_vars, phase, build,
                   count_vars>>

\* set_listener_error: `if let Ok(mut lock) = self.last_error.write()`
\* (stats.rs:207)
ListenErrorLock ==
    /\ Running /\ pc["adapter"] = "ls_err"
    /\ Unheld("last_error")
    /\ guards' = [guards EXCEPT !["adapter"] = @ \cup {"last_error"}]
    /\ pc' = [pc EXCEPT !["adapter"] = "ls_store"]
    /\ UNCHANGED <<clock, t_hour, store_vars, last_pos, listener_vars,
                   hist_vars, rec_locals, save_locals, stats_snapshot, wpm,
                   top, disk_vars, phase, log, build, count_vars>>

\* *lock = Some(error) (stats.rs:208); the guard is dropped and the
\* listener thread ends
ListenErrorStore ==
    /\ Running /\ pc["adapter"] = "ls_store"
    /\ last_error' = Some("error")
    /\ guards' = [guards EXCEPT !["adapter"] = @ \ {"last_error"}]
    /\ pc' = [pc EXCEPT !["adapter"] = "failed"]
    /\ UNCHANGED <<clock, t_hour, store_vars, last_pos, listener_active,
                   hist_vars, rec_locals, save_locals, stats_snapshot, wpm,
                   top, disk_vars, phase, log, build, count_vars>>

\* get_listener_error, called by a consumer: self.last_error.read()
\* (stats.rs:217) returns once no write guard exists
GetErrorLock ==
    /\ Running /\ pc["ui"] = "idle"
    /\ "last_error" \notin guards["adapter"]
    /\ guards' = [guards EXCEPT !["ui"] = @ \cup {"last_error"}]
    /\ pc' = [pc EXCEPT !["ui"] = "ge_read"]
    /\ UNCHANGED <<clock, t_hour, store_vars, last_pos, listener_vars,
                   hist_vars, rec_locals, save_locals, stats_snapshot, wpm,
                   top, disk_vars, phase, log, build, count_vars>>

\* .ok()?.clone(): the message is copied and the read guard is dropped
GetErrorClone ==
    /\ Running /\ pc["ui"] = "ge_read"
    /\ guards' = [guards EXCEPT !["ui"] = @ \ {"last_error"}]
    /\ pc' = [pc EXCEPT !["ui"] = "idle"]
    /\ UNCHANGED <<clock, t_hour, store_vars, last_pos, listener_vars,
                   hist_vars, rec_locals, save_locals, stats_snapshot, wpm,
                   top, disk_vars, phase, log, build, count_vars>>

\* time passes
Tick(t) ==
    /\ t > clock
    /\ clock' = t
    /\ UNCHANGED <<guards, t_hour, store_vars, last_pos, listener_vars, hist_vars, thread_vars, stats_snapshot, wpm, top,
                   disk_vars, phase, log, build, count_vars>>

(***************************************************************************)
(* The durable file (stats.rs:10-38, 220-233).  The JSON text is a         *)
(* sequence of chunks: one per serialized field, in declaration order,     *)
(* then the closing brace.  A file is a sequence of chunks too, with holes *)
(* where nothing was written.                                              *)
(***************************************************************************)
\* the fields without #[serde(skip)]
PersistedFields ==
    <<"key_counts", "mouse_clicks", "mouse_distance", "scroll_distance",
      "hourly_key_counts", "hourly_click_counts", "daily_stats">>
HourFields == {"hourly_key_counts", "hourly_click_counts"}

Chunk(name, value) == [name |-> name, value |-> value]
EndChunk == Chunk("}", 0)
Hole == Chunk("", 0)

\* a JSON object's keys are strings: a u8 key is written in decimal
HourToKey(h) == ToString(h)
KeyToHour(k) == CHOOSE h \in 0..255 : ToString(h) = k
IsHourKey(k) == \E h \in 0..255 : ToString(h) = k
HoursToJson(m) == [k \in {HourToKey(h) : h \in DOMAIN m} |-> m[KeyToHour(k)]]
HoursFromJson(j) == [h \in {KeyToHour(k) : k \in DOMAIN j} |-> j[HourToKey(h)]]

FieldToJson(s, f) == IF f \in HourFields THEN HoursToJson(s[f]) ELSE s[f]

\* a serializer that skips daily_stats
ToJsonSkipsDaily(s) ==
    [i \in 1..(Len(PersistedFields) + 1) |->
        IF i > Len(PersistedFields) THEN EndChunk
        ELSE IF PersistedFields[i] = "daily_stats"
          THEN Chunk("daily_stats", EmptyMap)
          ELSE Chunk(PersistedFields[i], FieldToJson(s, PersistedFields[i]))]

\* serde_json::to_string_pretty(&*stats)
ToJson(s) ==
    [i \in 1..(Len(PersistedFields) + 1) |->
        IF i <= Len(PersistedFields)
          THEN Chunk(PersistedFields[i], FieldToJson(s, PersistedFields[i]))
          ELSE EndChunk]

\* the text is one complete JSON object
WellFormed(text) ==
    /\ Len(text) >= 1
    /\ text[Len(text)] = EndChunk
    /\ \A i \in 1..(Len(text) - 1) : text[i].name \notin {"}", ""}
\* the chunk of field f
FieldChunk(text, f) ==
    text[CHOOSE i \in 1..Len(text) : text[i].name = f]
HasField(text, f) == \E i \in 1..Len(text) : text[i].name = f

\* serde_json::from_str::<Stats>: every field that is not skipped must be
\* present, unknown fields are ignored
Parses(text) ==
    /\ WellFormed(text)
    /\ \A i \in 1..Len(PersistedFields) : HasField(text, PersistedFields[i])
    /\ \A f \in HourFields :
          HasField(text, f) =>
              \A k \in DOMAIN FieldChunk(text, f).value : IsHourKey(k)
FieldFromJson(text, f) ==
    IF f \in HourFields THEN HoursFromJson(FieldChunk(text, f).value)
                        ELSE FieldChunk(text, f).value
FromJson(text) ==
    [f \in DOMAIN DefaultStats |->
        IF \E i \in 1..Len(PersistedFields) : PersistedFields[i] = f
          THEN FieldFromJson(text, f)
          ELSE DefaultStats[f]]

\* StatsManager::load_from_file: Some(stats), or None for Err
LoadFromFile(f, now) ==
    IF ~IsSome(f) THEN None
    ELSE IF ~Parses(Unwrap(f)) THEN None
    ELSE Some([FromJson(Unwrap(f)) EXCEPT !.session_start = Some(now)])

\* a constructor that falls back to Stats::default()
LoadOrNewDefault(f, now) ==
    IF IsSome(LoadFromFile(f, now)) THEN Unwrap(LoadFromFile(f, now))
                                   ELSE DefaultStats
\* Self::load_from_file(&data_path).unwrap_or_else(|_| Stats::new())
LoadOrNew(f, now) ==
    IF IsSome(LoadFromFile(f, now)) THEN Unwrap(LoadFromFile(f, now))
                                   ELSE NewStats(now)

\* a write of text[(off+1)..upto] at offset off into content c
WriteAt(c, text, off, upto) ==
    [i \in 1..(IF Len(c) > upto THEN Len(c) ELSE upto) |->
        IF off < i /\ i <= upto THEN text[i]
        ELSE IF i <= Len(c) THEN c[i]
        ELSE Hole]

(***************************************************************************)
(* StatsManager::save (stats.rs:228-233)                                   *)
(***************************************************************************)
\* what follows save() in its caller: the periodic thread loops
\* (main.rs:28), the Ctrl-C handler and main end the process (main.rs:43, 52)
AfterSave(p) == IF p = "timer" THEN "idle" ELSE "exit"

\* save() is called by the periodic thread (main.rs:30), by the Ctrl-C
\* handler (main.rs:42), or by main once the window is closed (main.rs:51):
\*     let stats = self.stats.read().map_err(..)?;
\*     let json = serde_json::to_string_pretty(&*stats)?;
SaveLock(p) ==
    /\ Running /\ pc[p] = "idle"
    /\ p = "timer" => nsaves < MaxSaves
    /\ CanRead(stats_lock)
    /\ nsaves' = IF p = "timer" THEN nsaves + 1 ELSE nsaves
    /\ IF stats_lock.poisoned
         THEN /\ pc' = [pc EXCEPT ![p] = AfterSave(p)]
              /\ t_res' = [t_res EXCEPT ![p] = Append(@, "err")]
              /\ UNCHANGED <<stats_lock, t_json, t_off, t_src>>
         ELSE /\ pc' = [pc EXCEPT ![p] = "sv_open"]
              /\ stats_lock' = [stats_lock EXCEPT !.readers = @ \cup {p}]
              /\ t_json' = [t_json EXCEPT ![p] = ToJson(stats)]
              /\ t_src' = [t_src EXCEPT ![p] = stats]
              /\ t_off' = [t_off EXCEPT ![p] = 0]
              /\ UNCHANGED t_res
    /\ UNCHANGED <<clock, guards, t_hour, stats, last_key, last_click, last_pos, listener_vars, hist_vars, rec_locals,
                   stats_snapshot, wpm, top, disk_vars, phase, log, build, ncalls,
                   nsnaps, nrestarts>>

\* fs::write opens the file, which truncates it
SaveOpen(p) ==
    /\ Running /\ pc[p] = "sv_open"
    /\ file' = Some(<<>>)
    /\ pc' = [pc EXCEPT ![p] = "sv_write"]
    /\ UNCHANGED <<clock, guards, t_hour, store_vars, last_pos, listener_vars, hist_vars, rec_locals, save_locals,
                   stats_snapshot, wpm, top, saved, phase, log, build,
                   count_vars>>

\* a caller that stops at the first error of save
SaveOpenFailsStops(p) ==
    /\ Running /\ pc[p] = "sv_open"
    /\ stats_lock' = [stats_lock EXCEPT !.readers = @ \ {p}]
    /\ pc' = [pc EXCEPT ![p] = "exit"]
    /\ t_res' = [t_res EXCEPT ![p] = Append(@, "err")]
    /\ UNCHANGED <<clock, guards, t_hour, stats, last_key, last_click, last_pos,
                   listener_vars, hist_vars, rec_locals, t_json, t_off,
                   t_src, stats_snapshot, wpm, top, disk_vars, phase, log, build,
                   count_vars>>

\* fs::write cannot open the file: save returns the error and the read
\* guard is dropped
SaveOpenFails(p) ==
    /\ Running /\ pc[p] = "sv_open"
    /\ stats_lock' = [stats_lock EXCEPT !.readers = @ \ {p}]
    /\ pc' = [pc EXCEPT ![p] = AfterSave(p)]
    /\ t_res' = [t_res EXCEPT ![p] = Append(@, "err")]
    /\ UNCHANGED <<clock, guards, t_hour, stats, last_key, last_click, last_pos, listener_vars, hist_vars, rec_locals,
                   t_json, t_off, t_src, stats_snapshot, wpm, top, disk_vars, phase,
                   log, build, count_vars>>

\* where write_all may stop between two writes
SplitAt == 3

\* fs::write writes a first part of json
SaveWritePart(p) ==
    /\ Running /\ pc[p] = "sv_write" /\ t_off[p] = 0
    /\ file' = Some(WriteAt(Unwrap(file), t_json[p], 0, SplitAt))
    /\ t_off' = [t_off EXCEPT ![p] = SplitAt]
    /\ UNCHANGED <<clock, guards, t_hour, store_vars, last_pos, listener_vars, hist_vars, pc, rec_locals, t_json, t_src,
                   t_res, stats_snapshot, wpm, top, saved, phase, log, build,
                   count_vars>>

\* fs::write writes the rest of json; save returns Ok and the read guard
\* is dropped
SaveWrite(p) ==
    /\ Running /\ pc[p] = "sv_write"
    /\ file' = Some(WriteAt(Unwrap(file), t_json[p], t_off[p], Len(t_json[p])))
    /\ saved' = t_src[p]
    /\ stats_lock' = [stats_lock EXCEPT !.readers = @ \ {p}]
    /\ pc' = [pc EXCEPT ![p] = AfterSave(p)]
    /\ t_res' = [t_res EXCEPT ![p] = Append(@, "ok")]
    /\ UNCHANGED <<clock, guards, t_hour, stats, last_key, last_click, last_pos, listener_vars, hist_vars, rec_locals,
                   t_json, t_off, t_src, stats_snapshot, wpm, top, phase, log, build,
                   count_vars>>

\* fs::write fails after it has opened the file (the disk is full, say):
\* the file keeps what was written, save returns the error and the read
\* guard is dropped
SaveWriteFails(p) ==
    /\ Running /\ pc[p] = "sv_write"
    /\ stats_lock' = [stats_lock EXCEPT !.readers = @ \ {p}]
    /\ pc' = [pc EXCEPT ![p] = AfterSave(p)]
    /\ t_res' = [t_res EXCEPT ![p] = Append(@, "err")]
    /\ UNCHANGED <<clock, guards, t_hour, stats, last_key, last_click, last_pos, listener_vars, hist_vars, rec_locals,
                   t_json, t_off, t_src, stats_snapshot, wpm, top, disk_vars, phase,
                   log, build, count_vars>>

(***************************************************************************)
(* StatsManager::snapshot (stats.rs:286-290), called by Dashboard::refresh *)
(***************************************************************************)
\* a snapshot that reads through a poisoned lock
SnapshotLockIntoInner ==
    /\ Running /\ pc["ui"] = "idle" /\ nsnaps < MaxSnaps
    /\ CanRead(stats_lock)
    /\ nsnaps' = nsnaps + 1
    /\ IF stats_lock.poisoned
         THEN /\ stats_snapshot' = stats
              /\ UNCHANGED <<stats_lock, pc>>
         ELSE /\ pc' = [pc EXCEPT !["ui"] = "sn_clone"]
              /\ stats_lock' = [stats_lock EXCEPT !.readers = @ \cup {"ui"}]
              /\ UNCHANGED stats_snapshot
    /\ UNCHANGED <<clock, guards, t_hour, stats, last_key, last_click, last_pos,
                   listener_vars, hist_vars, rec_locals, wpm, top, save_locals,
                   disk_vars, phase, log, build, ncalls, nsaves, nrestarts>>

\* self.stats.read(): Err gives unwrap_or_default()
SnapshotLock ==
    /\ Running /\ pc["ui"] = "idle" /\ nsnaps < MaxSnaps
    /\ CanRead(stats_lock)
    /\ nsnaps' = nsnaps + 1
    /\ IF stats_lock.poisoned
         THEN /\ stats_snapshot' = DefaultStats
              /\ UNCHANGED <<stats_lock, pc>>
         ELSE /\ pc' = [pc EXCEPT !["ui"] = "sn_clone"]
              /\ stats_lock' = [stats_lock EXCEPT !.readers = @ \cup {"ui"}]
              /\ UNCHANGED stats_snapshot
    /\ UNCHANGED <<clock, guards, t_hour, stats, last_key, last_click, last_pos, listener_vars, hist_vars, rec_locals, wpm, top,
                   save_locals, disk_vars, phase, log, build, ncalls, nsaves,
                   nrestarts>>

\* .map(|s| s.clone()), then the read guard is dropped
SnapshotClone ==
    /\ Running /\ pc["ui"] = "sn_clone"
    /\ stats_snapshot' = stats
    /\ stats_lock' = [stats_lock EXCEPT !.readers = @ \ {"ui"}]
    /\ pc' = [pc EXCEPT !["ui"] = "idle"]
    /\ UNCHANGED <<clock, guards, t_hour, stats, last_key, last_click, last_pos, listener_vars, hist_vars, rec_locals, wpm, top,
                   save_locals, disk_vars, phase, log, build,
                   count_vars>>

\* Dashboard::render computes the typing speed from its snapshot
\* (dashboard.rs:50-54)
Render ==
    /\ Running /\ pc["ui"] = "idle"
    /\ wpm' = Some(current_wpm(stats_snapshot, clock))
    /\ UNCHANGED <<clock, guards, t_hour, store_vars, last_pos, listener_vars, hist_vars,
                   thread_vars, stats_snapshot, top, disk_vars, phase, log,
                   build, count_vars>>

\* the orders in which a HashMap with the entries of m may iterate
IterOrders(m) ==
    {o \in [1..Cardinality(DOMAIN m) -> DOMAIN m] :
        \A i, j \in DOMAIN o : i # j => o[i] # o[j]}

\* v with x put behind its entries that are not smaller
InsertByCount(x, v) ==
    LET k == Cardinality({i \in 1..Len(v) : v[i][2] >= x[2]})
    IN  SubSeq(v, 1, k) \o <<x>> \o SubSeq(v, k + 1, Len(v))
\* sorted.sort_by(|a, b| b.1.cmp(&a.1)): descending by count, and stable
RECURSIVE SortByCount(_)
SortByCount(v) ==
    IF v = <<>> THEN <<>>
                ELSE InsertByCount(v[Len(v)], SortByCount(SubSeq(v, 1, Len(v) - 1)))
\* sorted.truncate(n)
Truncate(v, n) == SubSeq(v, 1, IF n < Len(v) THEN n ELSE Len(v))

\* a top_keys that does not sort
top_keys_unsorted(s, order, n) ==
    Truncate([i \in 1..Len(order) |-> <<order[i], s.key_counts[order[i]]>>], n)
\* Stats::top_keys, when key_counts.iter() yields the keys in `order`
top_keys(s, order, n) ==
    Truncate(
        SortByCount([i \in 1..Len(order) |-> <<order[i], s.key_counts[order[i]]>>]),
        n)

\* the list lengths asked for; render asks for 20 (dashboard.rs:58)
TopSizes == {0, 1, 2, 20}

\* stats.top_keys(n) on the dashboard's snapshot
TopKeys(n) ==
    /\ Running /\ pc["ui"] = "idle"
    /\ \E order \in IterOrders(stats_snapshot.key_counts) :
          top' = Some([n |-> n, keys |-> top_keys(stats_snapshot, order, n)])
    /\ UNCHANGED <<clock, guards, t_hour, store_vars, last_pos, listener_vars, hist_vars,
                   thread_vars, stats_snapshot, wpm, disk_vars, phase, log,
                   build, count_vars>>

(***************************************************************************)
(* The process (main.rs:11-52)                                             *)
(***************************************************************************)
\* a process that ends without waiting for its final save
ExitEarly(p) ==
    /\ Running /\ pc[p] \in {"idle", "exit"}
    /\ phase' = "exited"
    /\ UNCHANGED <<clock, guards, t_hour, store_vars, last_pos, listener_vars, hist_vars,
                   thread_vars, stats_snapshot, wpm, top, disk_vars, log, build,
                   count_vars>>

\* std::process::exit(0) in the Ctrl-C handler, or main returns: every
\* thread stops where it is
Exit(p) ==
    /\ Running /\ pc[p] = "exit"
    /\ phase' = "exited"
    /\ UNCHANGED <<clock, guards, t_hour, store_vars, last_pos, listener_vars, hist_vars, thread_vars, stats_snapshot, wpm, top,
                   disk_vars, log, build, count_vars>>

\* the listener thread is spawned (listener.rs:36); the others wait
StartThreads == [p \in Threads |-> IF p = "adapter" THEN "spawned" ELSE "idle"]
NoLocals == [p \in Threads |-> 0]
NoArgs == [p \in Threads |-> [label |-> "", amount |-> 0]]
\* no thread holds a guard of last_key, last_click or last_error
NoGuards == [p \in Threads |-> {}]

\* the state StatsManager::new() builds from the file f at time now
StartProcess(f, now) ==
    /\ stats = LoadOrNew(f, now)
    /\ stats_lock = FreeLock
    /\ last_key = None
    /\ last_click = None
    /\ last_pos = None
    /\ listener_active = FALSE
    /\ last_error = None
    /\ events = {[kind |-> "loaded", date |-> d] :
                    d \in DOMAIN LoadOrNew(f, now).daily_stats}
    /\ key_times = <<>>
    /\ pc = StartThreads
    /\ t_now = NoLocals /\ t_arg = NoArgs /\ t_idx = NoLocals
    /\ t_hour = NoLocals
    /\ guards = NoGuards
    /\ t_json = [p \in Threads |-> <<>>]
    /\ t_off = NoLocals
    /\ t_src = [p \in Threads |-> DefaultStats]
    /\ t_res = [p \in Threads |-> <<>>]
    /\ stats_snapshot = LoadOrNew(f, now)
    /\ wpm = None
    /\ top = None
    /\ phase = "running"
    /\ log = <<>>

\* the program is started again: main builds a new StatsManager
Restart ==
    /\ ~Running /\ nrestarts < MaxRestarts
    /\ stats' = LoadOrNew(file, clock)
    /\ stats_lock' = FreeLock
    /\ last_key' = None
    /\ last_click' = None
    /\ last_pos' = None
    /\ listener_active' = FALSE
    /\ last_error' = None
    /\ events' = {[kind |-> "loaded", date |-> d] :
                     d \in DOMAIN LoadOrNew(file, clock).daily_stats}
    /\ key_times' = <<>>
    /\ pc' = StartThreads
    /\ t_now' = NoLocals /\ t_arg' = NoArgs /\ t_idx' = NoLocals
    /\ t_hour' = NoLocals
    /\ guards' = NoGuards
    /\ t_json' = [p \in Threads |-> <<>>]
    /\ t_off' = NoLocals
    /\ t_src' = [p \in Threads |-> DefaultStats]
    /\ t_res' = [p \in Threads |-> <<>>]
    /\ stats_snapshot' = LoadOrNew(file, clock)
    /\ wpm' = None
    /\ top' = None
    /\ phase' = "running"
    /\ log' = <<>>
    /\ nrestarts' = nrestarts + 1
    /\ UNCHANGED <<clock, guards, t_hour, disk_vars, build, ncalls, nsaves, nsnaps>>

\* the first start: no file yet
Init ==
    /\ clock = 0
    /\ file = None
    /\ saved = DefaultStats
    /\ build = "any"
    /\ ncalls = 0 /\ nsaves = 0 /\ nsnaps = 0 /\ nrestarts = 0
    /\ StartProcess(None, 0)

Next ==
    \/ \E t \in TimePoints : Tick(t)
    \/ ListenerStart
    \/ ListenFails
    \/ ListenError
    \/ \E p \in Producers : \E k \in KeyLabels(p) : RecordKeyBegin(p, k)
    \/ \E p \in Producers : RecordKeyGate(p)
    \/ \E p \in Producers : RecordKeyLock(p)
    \/ \E p \in Producers : RecordKeyWrite(p)
    \/ \E p \in Producers : \E b \in ButtonLabels(p) : RecordClickBegin(p, b)
    \/ \E p \in Producers : RecordClickGate(p)
    \/ \E p \in Producers : RecordClickLock(p)
    \/ \E p \in Producers : RecordClickWrite(p)
    \/ \E pos \in Positions : MouseMove(pos)
    \/ RecordMovementLock
    \/ RecordMovementWrite
    \/ \E d \in ScrollDeltas : Wheel(d)
    \/ RecordScrollLock
    \/ RecordScrollWrite
    \/ RecordScrollPanic
    \/ RecordScrollAbort
    \/ \E p \in Savers : SaveLock(p)
    \/ \E p \in Savers : SaveOpen(p)
    \/ \E p \in Savers : SaveOpenFails(p)
    \/ \E p \in Savers : SaveWritePart(p)
    \/ \E p \in Savers : SaveWrite(p)
    \/ \E p \in Savers : SaveWriteFails(p)
    \/ SnapshotLock
    \/ SnapshotClone
    \/ Render
    \/ \E p \in Savers : Exit(p)
    \/ Restart
    \/ KeyRelease
    \/ ButtonRelease
    \/ \E n \in TopSizes : TopKeys(n)

Spec == Init /\ [][Next]_vars

(***************************************************************************)
(* The event path alone: the listener thread and the dashboard handlers    *)
(* submit keys and clicks while time passes.                                  *)
(***************************************************************************)
NextGate ==
    \/ \E t \in TimePoints : Tick(t)
    \/ ListenerStart
    \/ \E p \in Producers : \E k \in KeyLabels(p) : RecordKeyBegin(p, k)
    \/ \E p \in Producers : RecordKeyGate(p)
    \/ \E p \in Producers : RecordKeyLock(p)
    \/ \E p \in Producers : RecordKeyWrite(p)
    \/ \E p \in Producers : \E b \in ButtonLabels(p) : RecordClickBegin(p, b)
    \/ \E p \in Producers : RecordClickGate(p)
    \/ \E p \in Producers : RecordClickLock(p)
    \/ \E p \in Producers : RecordClickWrite(p)

SpecGate == Init /\ [][NextGate]_vars

(***************************************************************************)
(* The store under all its threads, at one instant: the listener thread,   *)
(* the dashboard, the periodic save thread and the Ctrl-C handler, for at  *)
(* most MaxStoreCalls events.                                              *)
(***************************************************************************)
MaxStoreCalls == 2
\* and at most MaxStoreSaves saves of the periodic thread
MaxStoreSaves == 1
\* and at most MaxStoreSnaps snapshots
MaxStoreSnaps == 1

NextStore ==
    /\ \/ ListenerStart
       \/ ListenFails
       \/ ListenError
       \/ \E p \in Producers : \E k \in KeyLabels(p) : RecordKeyBegin(p, k)
       \/ \E p \in Producers : RecordKeyGate(p)
       \/ \E p \in Producers : RecordKeyLock(p)
       \/ \E p \in Producers : RecordKeyWrite(p)
       \/ \E p \in Producers : \E b \in ButtonLabels(p) : RecordClickBegin(p, b)
       \/ \E p \in Producers : RecordClickGate(p)
       \/ \E p \in Producers : RecordClickLock(p)
       \/ \E p \in Producers : RecordClickWrite(p)
       \/ \E pos \in Positions : MouseMove(pos)
       \/ RecordMovementLock
       \/ RecordMovementWrite
       \/ \E d \in ScrollDeltas : Wheel(d)
       \/ RecordScrollLock
       \/ RecordScrollWrite
       \/ RecordScrollPanic
       \/ RecordScrollAbort
       \/ \E p \in Savers : SaveLock(p)
       \/ \E p \in Savers : SaveOpen(p)
       \/ \E p \in Savers : SaveWrite(p)
       \/ SnapshotLock
       \/ SnapshotClone
       \/ \E p \in Savers : Exit(p)
    /\ ncalls' <= MaxStoreCalls /\ nsaves' <= MaxStoreSaves
    /\ nsnaps' <= MaxStoreSnaps

SpecStore == Init /\ [][NextStore]_vars

(***************************************************************************)
(* The durable file across runs of the program: the listener thread        *)
(* submits at most MaxDiskCalls events while time passes, the Ctrl-C       *)
(* handler saves and ends the process, and the program is started again.   *)
(***************************************************************************)
MaxDiskCalls == 2

NextDisk ==
    /\ \/ \E t \in TimePoints : Tick(t)
       \/ ListenerStart
       \/ \E k \in KeyLabels("adapter") : RecordKeyBegin("adapter", k)
       \/ RecordKeyGate("adapter")
       \/ RecordKeyLock("adapter")
       \/ RecordKeyWrite("adapter")
       \/ \E b \in ButtonLabels("adapter") : RecordClickBegin("adapter", b)
       \/ RecordClickGate("adapter")
       \/ RecordClickLock("adapter")
       \/ RecordClickWrite("adapter")
       \/ \E pos \in Positions : MouseMove(pos)
       \/ RecordMovementLock
       \/ RecordMovementWrite
       \/ \E d \in ScrollDeltas : Wheel(d)
       \/ RecordScrollLock
       \/ RecordScrollWrite
       \/ RecordScrollPanic
       \/ RecordScrollAbort
       \/ SaveLock("ctrlc")
       \/ SaveOpen("ctrlc")
       \/ SaveOpenFails("ctrlc")
       \/ SaveWritePart("ctrlc")
       \/ SaveWrite("ctrlc")
       \/ Exit("ctrlc")
       \/ Restart
    /\ ncalls' <= MaxDiskCalls

SpecDisk == Init /\ [][NextDisk]_vars

(***************************************************************************)
(* The start of the program on the files it may find: written by this or   *)
(* by another version of the program (fields missing, a field it does not  *)
(* know), cut short, empty, or absent.                                     *)
(***************************************************************************)
\* aggregates an earlier run may have saved
SavedStats ==
    {NewStats(0),
     Stats_record_click(Stats_record_key(NewStats(0), "A", 0), "Left", 0)}
FieldNames == {PersistedFields[i] : i \in 1..Len(PersistedFields)}
\* the text of s with the fields of `keep` only, with a field this version
\* does not know when `extra`, and cut before its closing brace unless
\* `complete`
FileOf(s, keep, extra, complete) ==
    (IF extra THEN <<Chunk("version", 2)>> ELSE <<>>)
        \o SelectSeq(ToJson(s), LAMBDA c : c.name \in keep)
        \o (IF complete THEN <<EndChunk>> ELSE <<>>)

\* the program is not running yet
InitLoad ==
    /\ \E s \in SavedStats :
          /\ saved = s
          /\ \/ file = None
             \/ \E keep \in SUBSET FieldNames : \E extra, complete \in BOOLEAN :
                    file = Some(FileOf(s, keep, extra, complete))
    /\ clock = 0
    /\ build = "any"
    /\ ncalls = 0 /\ nsaves = 0 /\ nsnaps = 0 /\ nrestarts = 0
    /\ phase = "exited"
    /\ stats = DefaultStats
    /\ stats_lock = FreeLock
    /\ last_key = None /\ last_click = None /\ last_pos = None
    /\ listener_active = FALSE /\ last_error = None
    /\ events = {} /\ key_times = <<>>
    /\ pc = StartThreads
    /\ t_now = NoLocals /\ t_arg = NoArgs /\ t_idx = NoLocals
    /\ t_hour = NoLocals
    /\ guards = NoGuards
    /\ t_json = [p \in Threads |-> <<>>]
    /\ t_off = NoLocals
    /\ t_src = [p \in Threads |-> DefaultStats]
    /\ t_res = [p \in Threads |-> <<>>]
    /\ stats_snapshot = DefaultStats
    /\ wpm = None
    /\ top = None
    /\ log = <<>>

NextLoad ==
    \/ \E t \in TimePoints : Tick(t)
    \/ Restart

SpecLoad == InitLoad /\ [][NextLoad]_vars

(***************************************************************************)
(* The periodic save thread alone with the listener thread, at one         *)
(* instant: a save may fail at the lock, at the open and at the write.     *)
(***************************************************************************)
MaxSaveCalls == 2

NextSave ==
    /\ \/ ListenerStart
       \/ \E k \in KeyLabels("adapter") : RecordKeyBegin("adapter", k)
       \/ RecordKeyGate("adapter")
       \/ RecordKeyLock("adapter")
       \/ RecordKeyWrite("adapter")
       \/ \E d \in ScrollDeltas : Wheel(d)
       \/ RecordScrollLock
       \/ RecordScrollWrite
       \/ RecordScrollPanic
       \/ RecordScrollAbort
       \/ SaveLock("timer")
       \/ SaveOpen("timer")
       \/ SaveOpenFails("timer")
       \/ SaveWritePart("timer")
       \/ SaveWrite("timer")
       \/ SaveWriteFails("timer")
    /\ ncalls' <= MaxSaveCalls

SpecSave == Init /\ [][NextSave]_vars

(***************************************************************************)
(* The typing speed over more than a minute: the listener thread submits   *)
(* keys, the dashboard takes a snapshot and renders.                       *)
(***************************************************************************)
\* the instants (ms) at which the clock is observed
WpmTimePoints == {10, 59950, 60010}

NextWpm ==
    \/ \E t \in WpmTimePoints : Tick(t)
    \/ ListenerStart
    \/ \E k \in KeyLabels("adapter") : RecordKeyBegin("adapter", k)
    \/ RecordKeyGate("adapter")
    \/ RecordKeyLock("adapter")
    \/ RecordKeyWrite("adapter")
    \/ SnapshotLock
    \/ SnapshotClone
    \/ Render

SpecWpm == Init /\ [][NextWpm]_vars

(***************************************************************************)
(* The end of the process, at one instant: the window is closed or the     *)
(* interrupt arrives while the listener thread submits at most             *)
(* MaxExitCalls events and the periodic thread saves; every save may fail. *)
(***************************************************************************)
MaxExitCalls == 1

NextExit ==
    /\ \/ ListenerStart
       \/ \E k \in KeyLabels("adapter") : RecordKeyBegin("adapter", k)
       \/ RecordKeyGate("adapter")
       \/ RecordKeyLock("adapter")
       \/ RecordKeyWrite("adapter")
       \/ \E d \in ScrollDeltas : Wheel(d)
       \/ RecordScrollLock
       \/ RecordScrollWrite
       \/ RecordScrollPanic
       \/ RecordScrollAbort
       \/ \E p \in Savers : SaveLock(p)
       \/ \E p \in Savers : SaveOpen(p)
       \/ \E p \in Savers : SaveOpenFails(p)
       \/ \E p \in Savers : SaveWritePart(p)
       \/ \E p \in Savers : SaveWrite(p)
       \/ \E p \in Savers : SaveWriteFails(p)
       \/ \E p \in Savers : Exit(p)
    /\ ncalls' <= MaxExitCalls /\ nsaves' <= MaxStoreSaves

SpecExit == Init /\ [][NextExit]_vars

(***************************************************************************)
(* Properties of the dedup gate.  log holds the candidates of both         *)
(* channels in the order in which they met their gate.                     *)
(***************************************************************************)
LogIdx == 1..Len(log)
\* the candidate that met the gate of log[i]'s channel just before log[i]
PrevOn(i) ==
    LET js == {j \in 1..(i - 1) : log[j].ch = log[i].ch}
    IN  IF js = {} THEN 0 ELSE CHOOSE j \in js : \A k \in js : k <= j
\* the most recently accepted candidate of log[i]'s channel before log[i]
LastAccBefore(i) ==
    LET js == {j \in 1..(i - 1) : log[j].ch = log[i].ch /\ log[j].acc}
    IN  IF js = {} THEN 0 ELSE CHOOSE j \in js : \A k \in js : k <= j
\* the most recently accepted candidate of channel ch
LastAcc(ch) ==
    LET js == {j \in LogIdx : log[j].ch = ch /\ log[j].acc}
    IN  IF js = {} THEN 0 ELSE CHOOSE j \in js : \A k \in js : k <= j
\* the candidates of channel ch, in gate order
OnChannel(ch) == SelectSeq(log, LAMBDA e : e.ch = ch)
\* no record_key call is in flight
KeysQuiet == \A p \in Threads : pc[p] \notin {"rk_gate", "rk_lock", "rk_write"}
\* the record_key calls for label l that were counted
CountedKeys(l) ==
    Cardinality({i \in LogIdx : log[i].ch = "key" /\ log[i].name = l
                                /\ log[i].counted})
AllKeyLabels == UNION {KeyLabels(p) : p \in Producers}

\* C1: of two record_key calls with the same label that meet the gate one
\* after the other, the first being counted, the second is not counted when
\* its timestamp is less than 50 ms after the first's, and is counted when
\* it is 50 ms or more after it; key_counts[l] is the number of calls for l
\* that were counted.
C1_SameLabelPair ==
    /\ \A i \in LogIdx :
          LET j == PrevOn(i)
          IN  (/\ log[i].ch = "key" /\ j # 0
               /\ log[j].name = log[i].name /\ log[j].acc) =>
                  /\ log[i].t - log[j].t < 50 =>
                        ~log[i].acc /\ ~log[i].counted
                  /\ log[i].t - log[j].t >= 50 =>
                        /\ log[i].acc
                        /\ log[i].done /\ ~stats_lock.poisoned => log[i].counted
    /\ \A l \in AllKeyLabels : Get(stats.key_counts, l) = CountedKeys(l)

\* C1 witness: three calls for "A": the second, 50 ms or more after the
\* first, is counted, and the third, less than 50 ms after the second, is not
C1_Witness ==
    /\ KeysQuiet
    /\ \E i, j, k \in LogIdx :
          /\ i < j /\ j < k /\ PrevOn(k) = j /\ PrevOn(j) = i
          /\ log[i].ch = "key" /\ log[i].name = "A" /\ log[j].name = "A"
          /\ log[k].name = "A"
          /\ log[i].counted /\ log[j].counted /\ ~log[k].counted
          /\ log[j].t - log[i].t >= 50 /\ log[k].t - log[j].t < 50
    /\ stats.key_counts["A"] = 2

\* C2: each gate remembers the (label, timestamp) of the most recently
\* accepted candidate of its channel, whatever was suppressed since; and
\* after record_key("A") at t, t + 60 and t + 70 on an empty store
\* key_counts["A"] is 2.
C2_RemembersAccepted ==
    /\ last_key = IF LastAcc("key") = 0 THEN None
                  ELSE Some([name |-> log[LastAcc("key")].name,
                             time |-> log[LastAcc("key")].t])
    /\ last_click = IF LastAcc("click") = 0 THEN None
                    ELSE Some([name |-> log[LastAcc("click")].name,
                               time |-> log[LastAcc("click")].t])
    /\ LET ks == OnChannel("key")
       IN  (/\ KeysQuiet /\ ~stats_lock.poisoned /\ Len(ks) = 3
            /\ \A i \in 1..3 : ks[i].name = "A"
            /\ ks[2].t = ks[1].t + 60 /\ ks[3].t = ks[1].t + 70) =>
               /\ stats.key_counts["A"] = 2
               /\ ~ks[3].acc

\* C2 witness: the scenario has run, and the gate still holds the second call
C2_Witness ==
    LET ks == OnChannel("key")
    IN  /\ KeysQuiet /\ Len(ks) = 3
        /\ \A i \in 1..3 : ks[i].name = "A"
        /\ ks[2].t = ks[1].t + 60 /\ ks[3].t = ks[1].t + 70
        /\ last_key = Some([name |-> "A", time |-> ks[2].t])
        /\ stats.key_counts["A"] = 2

\* the record_key calls spaced at least 50 ms apart, each from the one before
KeysSpaced ==
    \A i \in LogIdx :
        (log[i].ch = "key" /\ PrevOn(i) # 0) => log[i].t - log[PrevOn(i)].t >= 50

\* C3: when every record_key call came at least 50 ms after the one before
\* it and all have returned, key_counts[l] is the number of calls made for l,
\* for every label l.
C3_SpacedCallsCounted ==
    (KeysQuiet /\ KeysSpaced /\ ~stats_lock.poisoned) =>
        \A l \in AllKeyLabels :
            Get(stats.key_counts, l) =
                Cardinality({i \in LogIdx : log[i].ch = "key" /\ log[i].name = l})

\* C3 witness: two calls for "A" exactly 50 ms apart, both counted
C3_Witness ==
    /\ KeysQuiet /\ KeysSpaced
    /\ Len(OnChannel("key")) = 2
    /\ OnChannel("key")[2].t = OnChannel("key")[1].t + 50
    /\ Get(stats.key_counts, "A") = 2

\* C4: a candidate whose label differs from the label of the most recently
\* accepted candidate of its channel is accepted, whatever their timestamps.
C4_OtherLabelAccepted ==
    \A i \in LogIdx :
        (LastAccBefore(i) # 0 /\ log[LastAccBefore(i)].name # log[i].name) =>
            log[i].acc

\* C4 witness: a second label is counted at the very timestamp of the
\* first, after a click went through the click gate
C4_Witness ==
    \E i, j, k \in LogIdx :
        /\ log[i].ch = "key" /\ log[j].ch = "key" /\ LastAccBefore(j) = i
        /\ log[i].name # log[j].name /\ log[j].t = log[i].t
        /\ log[i].counted /\ log[j].counted
        /\ log[k].ch = "click" /\ log[k].counted

\* a thread leaves the gate of record_key (of record_click) in this step
LeavesGate(at) == \E p \in Threads : pc[p] = at /\ pc'[p] # at

\* every suppressed candidate has an accepted candidate of its own channel
\* with its label less than 50 ms before it
SuppressedByOwnChannel ==
    \A i \in LogIdx :
        ~log[i].acc =>
            /\ LastAccBefore(i) # 0
            /\ log[LastAccBefore(i)].name = log[i].name
            /\ DurationSince(log[i].t, log[LastAccBefore(i)].t) < 50

\* C5: only record_key changes the key cell and only record_click changes
\* the click cell, and a candidate is suppressed only by a candidate of its
\* own channel.
C5_ChannelsApart ==
    /\ []SuppressedByOwnChannel
    /\ [][/\ last_key' # last_key => LeavesGate("rk_gate")
          /\ last_click' # last_click => LeavesGate("rc_gate")]_vars

\* C5 witness: "Left" is counted as a key and, less than 50 ms later, as a
\* click
C5_Witness ==
    \E i, j \in LogIdx :
        /\ log[i].ch = "key" /\ log[j].ch = "click" /\ i < j
        /\ log[i].name = "Left" /\ log[j].name = "Left"
        /\ log[j].t - log[i].t < 50
        /\ log[i].counted /\ log[j].counted
        /\ last_key = Some([name |-> "Left", time |-> log[i].t])

(***************************************************************************)
(* Properties of the store's locks and of the durable file                 *)
(***************************************************************************)
\* C6: a call that cannot take a lock changes nothing, and the gate holds
\* a candidate exactly when the aggregate was changed for it: every call
\* that has returned was either suppressed and not counted, or remembered
\* and counted.
C6_AcceptedIsCounted ==
    \A i \in LogIdx : log[i].done => (log[i].acc <=> log[i].counted)

\* thread p holds the write guard and may change the aggregate
Writing(p) == pc[p] \in {"rk_write", "rc_write", "rm_write", "rs_write"}
\* thread p holds a read guard and may read the aggregate
Reading(p) == pc[p] \in {"sv_open", "sv_write", "sn_clone"}
\* thread p waits in self.stats.write()
WaitsToWrite(p) == pc[p] \in {"rk_lock", "rc_lock", "rm_lock", "rs_lock"}

MutualExclusion ==
    \A p, q \in Threads :
        (Writing(p) /\ q # p) => ~Writing(q) /\ ~Reading(q)

\* C7: at most one thread is writing, no thread is reading while one is
\* writing, the aggregate changes only in a step of the writing thread, and
\* it is copied or serialized only by a thread that holds a read guard.
C7_LockDiscipline ==
    /\ []MutualExclusion
    /\ [][/\ stats' # stats => \E p \in Threads : Writing(p)
          /\ stats_snapshot' # stats_snapshot =>
                Reading("ui") \/ stats_lock.poisoned
          /\ \A p \in Threads :
                t_json'[p] # t_json[p] => Reading(p)' /\ ~stats_lock.poisoned
         ]_vars

\* C7 witness: the periodic thread and the Ctrl-C handler read at the same
\* time while both producers wait to write
C7_Witness ==
    /\ Reading("timer") /\ Reading("ctrlc")
    /\ {"timer", "ctrlc"} \subseteq stats_lock.readers
    /\ WaitsToWrite("adapter") /\ WaitsToWrite("ui")

\* C8: while save() opens and writes the file it holds no guard of the
\* aggregate.
C8_WritesFileUnlocked ==
    \A p \in Savers :
        pc[p] \in {"sv_open", "sv_write"} => p \notin stats_lock.readers

\* C9: whenever the file exists, a load of it succeeds: the file never
\* holds part of a save.
C9_FileAlwaysLoads ==
    IsSome(file) => IsSome(LoadFromFile(file, clock))

\* the fields of s that are persisted
Persisted(s) == [i \in 1..Len(PersistedFields) |-> s[PersistedFields[i]]]

Malformed(f) ==
    \/ f = None
    \/ Unwrap(f) = <<>>
    \/ Unwrap(f)[Len(Unwrap(f))] # EndChunk

\* C11: a start of the program on an absent, unreadable, empty or malformed
\* file succeeds, leaves the file alone and gives the aggregate Stats::new()
\* gives at that instant: all maps empty, all totals zero, session_start
\* now.
C11_BadFileGivesNew ==
    [][(~Running /\ Running' /\ Malformed(file)) =>
           /\ stats' = NewStats(clock')
           /\ stats'.session_start = Some(clock')
           /\ \A i \in 1..Len(PersistedFields) :
                 stats'[PersistedFields[i]] = DefaultStats[PersistedFields[i]]
           /\ file' = file]_vars

\* C11 witness: the program has started, later than 0, on a file that was
\* cut short after a non-empty key_counts, and its aggregate is empty
C11_Witness ==
    /\ Running /\ nrestarts = 1 /\ clock > 0
    /\ IsSome(file) /\ Malformed(file)
    /\ HasField(Unwrap(file), "key_counts")
    /\ FieldChunk(Unwrap(file), "key_counts").value # EmptyMap
    /\ stats = NewStats(clock)

\* C12: a start on a complete file in which fields are missing or unknown
\* fields are present loads it: every persisted field that is present has
\* its stored value and every missing one its default.
C12_ForwardCompatible ==
    [][(~Running /\ Running' /\ IsSome(file) /\ WellFormed(Unwrap(file))) =>
           \A i \in 1..Len(PersistedFields) :
               LET f == PersistedFields[i]
               IN  stats'[f] = IF HasField(Unwrap(file), f) THEN saved[f]
                                                            ELSE DefaultStats[f]
       ]_vars

(***************************************************************************)
(* Properties of snapshot()                                                *)
(***************************************************************************)
\* C13: a step that changes the aggregate leaves the snapshot the dashboard
\* holds as it was: the copy snapshot() returned shares nothing with the
\* aggregate.
C13_SnapshotIndependent ==
    [][(Running /\ Running' /\ stats' # stats) =>
           stats_snapshot' = stats_snapshot]_vars

\* C13 witness: the snapshot was taken after a key was counted; a click
\* counted since is in the aggregate and not in the snapshot
C13_Witness ==
    /\ nsnaps = 1 /\ pc["ui"] = "idle"
    /\ Get(stats_snapshot.key_counts, "A") = 1
    /\ stats_snapshot.mouse_clicks = EmptyMap
    /\ Get(stats.mouse_clicks, "Left") = 1
    /\ Get(stats.key_counts, "A") = 1

\* C14: snapshot() on a poisoned lock returns at once with the default
\* aggregate and leaves the aggregate and its lock as they were.
C14_SnapshotOnPoison ==
    [][(Running /\ stats_lock.poisoned /\ nsnaps' # nsnaps) =>
           /\ stats_snapshot' = DefaultStats
           /\ stats' = stats /\ stats_lock' = stats_lock
           /\ pc'["ui"] = "idle" /\ Running']_vars

\* C14 witness: the aggregate holds a counted key, its lock is poisoned, and
\* the snapshot taken since is the default aggregate
C14_Witness ==
    /\ stats_lock.poisoned /\ nsnaps = 1 /\ pc["ui"] = "idle"
    /\ stats_snapshot = DefaultStats
    /\ stats.key_counts # EmptyMap

(***************************************************************************)
(* Properties of save() and of its callers                                 *)
(***************************************************************************)
\* save() of thread p returns in this step
SaveReturns(p) == Len(t_res'[p]) = Len(t_res[p]) + 1
\* what the last save() of thread p returned
LastResult(p) == t_res[p][Len(t_res[p])]

\* C15: a save() that fails at the lock, at the open or at the write
\* returns Err, and one that returns Ok has written all of json; a save
\* that returns Err has not changed the aggregate and leaves the periodic
\* thread in its loop, ready for the next save.
C15_SaveFailureReported ==
    [][\A p \in Savers :
          SaveReturns(p) =>
              /\ (\/ pc[p] = "idle"
                  \/ pc[p] = "sv_open"
                  \/ file' # Some(t_json[p])) => LastResult(p)' = "err"
              /\ LastResult(p)' = "err" =>
                    /\ stats' = stats
                    /\ Running'
                    /\ p = "timer" => pc'[p] = "idle"]_vars

\* C15 witness: the first save of the periodic thread failed after it had
\* opened the file, the second one succeeded, and the file holds the
\* aggregate with its counted key
C15_Witness ==
    /\ t_res["timer"] = <<"err", "ok">>
    /\ file = Some(ToJson(stats))
    /\ Get(stats.key_counts, "A") = 1
    /\ pc["timer"] = "idle"

(***************************************************************************)
(* Properties of the aggregate                                             *)
(***************************************************************************)
\* every entry of map a is in map b with a count that is not smaller
MapLeq(a, b) == \A k \in DOMAIN a : k \in DOMAIN b /\ a[k] <= b[k]
DailyLeq(a, b) ==
    \A d \in DOMAIN a :
        /\ d \in DOMAIN b
        /\ a[d].total_keys <= b[d].total_keys
        /\ a[d].total_clicks <= b[d].total_clicks
        /\ a[d].total_distance <= b[d].total_distance
\* no count field of s is larger than that of t
CountsLeq(s, t) ==
    /\ MapLeq(s.key_counts, t.key_counts)
    /\ MapLeq(s.mouse_clicks, t.mouse_clicks)
    /\ s.mouse_distance <= t.mouse_distance
    /\ s.scroll_distance <= t.scroll_distance
    /\ MapLeq(s.hourly_key_counts, t.hourly_key_counts)
    /\ MapLeq(s.hourly_click_counts, t.hourly_click_counts)
    /\ DailyLeq(s.daily_stats, t.daily_stats)

\* C16: while the process runs no step makes a count field of the
\* aggregate smaller.
C16_CountsNeverDecrease ==
    [][(Running /\ Running') => CountsLeq(stats, stats')]_vars

\* the local dates on which an event of one of the kinds was recorded, or
\* that were loaded from the file
DatesOf(kinds) == {e.date : e \in {x \in events : x.kind \in kinds}}

\* C17 as stated: the keys of daily_stats are exactly the dates on which a
\* key, click, movement or scroll event was recorded.
C17_DatesOfAllEvents ==
    DOMAIN stats.daily_stats =
        DatesOf({"loaded", "key", "click", "movement", "scroll"})

\* C17 as amended: the keys of daily_stats are exactly the dates on which a
\* key, click or movement event was recorded (or that came from the file),
\* and while the process runs no entry is removed.
C17_DatesOfDatedEvents ==
    /\ [](DOMAIN stats.daily_stats =
              DatesOf({"loaded", "key", "click", "movement"}))
    /\ [][(Running /\ Running') =>
              DOMAIN stats.daily_stats \subseteq DOMAIN stats'.daily_stats]_vars

\* C17 witness: after a restart on the saved file the aggregate has the
\* entry of the day before, loaded, and the entry of the day of a click
C17_Witness ==
    /\ nrestarts = 1 /\ Running
    /\ DOMAIN stats.daily_stats = {"2024-01-01", "2024-01-02"}
    /\ events = {[kind |-> "loaded", date |-> "2024-01-01"],
                 [kind |-> "click", date |-> "2024-01-02"]}

\* the recorded key presses less than 60 s old at instant now
RecentPresses(now) ==
    SelectSeq(key_times, LAMBDA t : DurationSince(now, t) < WpmWindowMs)

HookFailed == pc["adapter"] \in {"ls_err", "failed"}

\* C19: once listen has returned an error the flag is false, and when
\* the listener thread has ended the error is readable; the listener
\* thread then holds no guard and has poisoned no lock, and every snapshot
\* and every save made from then on takes the aggregate as it is.
C19_ListenerFailure ==
    /\ [](HookFailed => ~is_listener_active)
    /\ [](pc["adapter"] = "failed" => get_listener_error = Some("error"))
    /\ [](HookFailed => /\ stats_lock.writer # Some("adapter")
                        /\ ~stats_lock.poisoned)
    /\ [][HookFailed =>
              /\ HookFailed' \/ ~Running'
              /\ stats_snapshot' # stats_snapshot => stats_snapshot' = stats
              /\ \A p \in Savers :
                    t_json'[p] # t_json[p] => t_json'[p] = ToJson(stats)
              /\ \A p \in Savers :
                    SaveReturns(p) => LastResult(p)' = "ok"]_vars

\* C19 witness: the listener thread has counted a key and ended with an
\* error; the dashboard is copying the aggregate, the periodic thread and
\* the Ctrl-C handler are saving it
C19_Witness ==
    /\ pc["adapter"] = "failed"
    /\ ~is_listener_active /\ get_listener_error = Some("error")
    /\ Get(stats.key_counts, "A") = 1
    /\ pc["ui"] = "sn_clone"
    /\ pc["timer"] = "sv_write" /\ pc["ctrlc"] = "sv_open"

\* the threads that end the process: main, once the window is closed, and
\* the Ctrl-C handler
Enders == {"ui", "ctrlc"}

\* C20: the process ends, by the return of main or by exit(0) in the Ctrl-C
\* handler, only after a save() of that thread has returned; whatever that
\* save returned, the thread goes on to end the process and nothing
\* keeps it from doing so.
C20_FinalSaveBeforeExit ==
    /\ [][(Running /\ phase' = "exited") =>
              \E p \in Enders : pc[p] = "exit" /\ Len(t_res[p]) = 1]_vars
    /\ [][\A p \in Enders : SaveReturns(p) => pc'[p] = "exit"]_vars
    /\ [](\A p \in Enders : (Running /\ pc[p] = "exit") => ENABLED Exit(p))

\* C20 witness: the Ctrl-C handler's save failed at the write while the
\* periodic thread was saving, and the process has ended
C20_Witness ==
    /\ phase = "exited"
    /\ t_res["ctrlc"] = <<"err">> /\ pc["ctrlc"] = "exit"
    /\ pc["timer"] = "sv_write"
    /\ Get(stats.key_counts, "A") = 1

(***************************************************************************)
(* The periodic save thread over the lifetime of the process: the listener *)
(* thread submits at most MaxTimerCalls pointer and wheel events while     *)
(* time passes, and the periodic thread saves; no write to the file fails. *)
(* A thread that can run does run: the periodic thread goes through its    *)
(* loop, and the listener thread leaves a call it is in.                   *)
(***************************************************************************)
MaxTimerCalls == 3

NextTimer ==
    /\ \/ \E t \in TimePoints : Tick(t)
       \/ ListenerStart
       \/ \E pos \in Positions : MouseMove(pos)
       \/ RecordMovementLock
       \/ RecordMovementWrite
       \/ \E d \in ScrollDeltas : Wheel(d)
       \/ RecordScrollLock
       \/ RecordScrollWrite
       \/ RecordScrollPanic
       \/ RecordScrollAbort
       \/ SaveLock("timer")
       \/ SaveOpen("timer")
       \/ SaveWritePart("timer")
       \/ SaveWrite("timer")
    /\ ncalls' <= MaxTimerCalls

\* the steps of the listener thread inside a record_* call
AdapterStep ==
    \/ RecordMovementLock
    \/ RecordMovementWrite
    \/ RecordScrollLock
    \/ RecordScrollWrite
    \/ RecordScrollPanic
    \/ RecordScrollAbort

\* the steps of the periodic thread: loop { sleep; save } (main.rs:28-35)
TimerStep ==
    \/ SaveLock("timer")
    \/ SaveOpen("timer")
    \/ SaveWrite("timer")

\* every step of either kind moves its thread or ends the process
where_vars == <<pc, phase>>

SpecTimer ==
    /\ Init
    /\ [][NextTimer]_vars
    /\ WF_where_vars(AdapterStep)
    /\ WF_where_vars(TimerStep)

(***************************************************************************)
(* Properties of the periodic save                                         *)
(***************************************************************************)
\* the file loads and holds a pointer distance of at least d
FileHolds(d) ==
    /\ IsSome(file)
    /\ Parses(Unwrap(file))
    /\ FromJson(Unwrap(file)).mouse_distance >= d

\* the pointer distances the aggregate can hold
Travelled == {5 * n : n \in 1..MaxTimerCalls}

\* C21: while the process runs and the periodic thread still has a save
\* to begin, every movement recorded in the aggregate is eventually held
\* by the file, or the process ends.
C21_EventuallyDurable ==
    \A d \in Travelled :
        (Running /\ nsaves < MaxSaves /\ stats.mouse_distance >= d)
            ~> (~Running \/ FileHolds(d))

(***************************************************************************)
(* Properties of the threads that submit candidates                        *)
(***************************************************************************)
\* thread p is inside record_key, inside record_click
InRecordKey(p) == pc[p] \in {"rk_gate", "rk_lock", "rk_write"}
InRecordClick(p) == pc[p] \in {"rc_gate", "rc_lock", "rc_write"}
\* thread p is about to take the write guard of a channel's cell
AtGate(p, ch) == pc[p] = (IF ch = "key" THEN "rk_gate" ELSE "rc_gate")

\* C22: only the listener thread is ever inside record_key or
\* record_click, and no two threads are at the gate of one channel at the
\* same time.
C22_SingleSubmitter ==
    /\ \A p \in Threads :
          (InRecordKey(p) \/ InRecordClick(p)) => p = "adapter"
    /\ \A ch \in {"key", "click"} :
          Cardinality({p \in Threads : AtGate(p, ch)}) <= 1

(***************************************************************************)
(* Properties of the aggregate's operations                                *)
(***************************************************************************)
\* the local dates of the model
Dates == {LocalDate(t) : t \in TimePoints}
\* the local hours of the model
Hours == {LocalHour(t) : t \in TimePoints}

\* daily_stats.get(date).map(|s| s.total_keys).unwrap_or(0), and the same
\* for the clicks and the distance
daily_keys(s, date) ==
    IF date \in DOMAIN s.daily_stats THEN s.daily_stats[date].total_keys ELSE 0
daily_clicks(s, date) ==
    IF date \in DOMAIN s.daily_stats THEN s.daily_stats[date].total_clicks ELSE 0
daily_distance(s, date) ==
    IF date \in DOMAIN s.daily_stats THEN s.daily_stats[date].total_distance
                                     ELSE 0
\* Stats::today_keys, today_clicks and today_distance
today_keys(s, now) == daily_keys(s, LocalDate(now))
today_clicks(s, now) == daily_clicks(s, LocalDate(now))
today_distance(s, now) == daily_distance(s, LocalDate(now))

\* an aggregate on which nothing has been recorded
Fresh(s) == [s EXCEPT !.session_start = None] = DefaultStats

\* thread p runs the Stats method of the record_* call whose write guard
\* it holds at `at`
Runs(p, at) == pc[p] = at /\ pc'[p] = "idle" /\ stats_lock'.writer = None
                          /\ ~stats_lock'.poisoned

\* C23: the step in which Stats::record_key(label) runs adds one to
\* key_counts[label] and to no other key, one to the key count of the
\* current local hour and of no other hour, and one to total_keys of the
\* current local date and of no other date; the entry of that date
\* exists afterwards and, when it did not exist before, its clicks and
\* distance are zero; the call's instant becomes the last entry of
\* recent_keys, which gains at most one entry.  When the aggregate was
\* fresh, today_keys() is then 1 and total_keys is 0 for every other date.
C23_RecordKeyEffect ==
    [][\A p \in Producers :
          Runs(p, "rk_write") =>
            LET label == t_arg[p].label
                hour == LocalHour(clock)
                date == LocalDate(clock)
            IN  /\ \A k \in AllKeyLabels :
                      Get(stats'.key_counts, k) =
                          Get(stats.key_counts, k) + (IF k = label THEN 1 ELSE 0)
                /\ label \in DOMAIN stats'.key_counts
                /\ \A h \in Hours :
                      Get(stats'.hourly_key_counts, h) =
                          Get(stats.hourly_key_counts, h)
                              + (IF h = hour THEN 1 ELSE 0)
                /\ \A d \in Dates :
                      daily_keys(stats', d) =
                          daily_keys(stats, d) + (IF d = date THEN 1 ELSE 0)
                /\ date \in DOMAIN stats'.daily_stats
                /\ date \notin DOMAIN stats.daily_stats =>
                      /\ daily_clicks(stats', date) = 0
                      /\ daily_distance(stats', date) = 0
                /\ Len(stats'.recent_keys) >= 1
                /\ Len(stats'.recent_keys) <= Len(stats.recent_keys) + 1
                /\ stats'.recent_keys[Len(stats'.recent_keys)] = clock
                /\ Fresh(stats) =>
                      /\ today_keys(stats', clock') = 1
                      /\ \A d \in Dates \ {date} : daily_keys(stats', d) = 0]_vars

\* C23 witness: A was counted before midnight and again after it; each
\* date and each hour holds one key, and today_keys() is 1
C23_Witness ==
    /\ Get(stats.key_counts, "A") = 2
    /\ DOMAIN stats.daily_stats = Dates
    /\ \A d \in Dates : daily_keys(stats, d) = 1
    /\ \A h \in Hours : Get(stats.hourly_key_counts, h) = 1
    /\ today_keys(stats, clock) = 1
    /\ clock >= Midnight
    /\ Len(stats.recent_keys) = 2

(***************************************************************************)
(* The listener thread alone: every kind of event the hook delivers, while *)
(* time passes.                                                            *)
(***************************************************************************)
NextAgg ==
    \/ \E t \in TimePoints : Tick(t)
    \/ ListenerStart
    \/ \E k \in KeyLabels("adapter") : RecordKeyBegin("adapter", k)
    \/ RecordKeyGate("adapter")
    \/ RecordKeyLock("adapter")
    \/ RecordKeyWrite("adapter")
    \/ KeyRelease
    \/ \E b \in ButtonLabels("adapter") : RecordClickBegin("adapter", b)
    \/ RecordClickGate("adapter")
    \/ RecordClickLock("adapter")
    \/ RecordClickWrite("adapter")
    \/ ButtonRelease
    \/ \E pos \in Positions : MouseMove(pos)
    \/ RecordMovementLock
    \/ RecordMovementWrite
    \/ \E d \in ScrollDeltas : Wheel(d)
    \/ RecordScrollLock
    \/ RecordScrollWrite
    \/ RecordScrollPanic
    \/ RecordScrollAbort

SpecAgg == Init /\ [][NextAgg]_vars

\* C24: the step in which Stats::record_click(label) runs adds one to
\* mouse_clicks[label] and to no other button, one to the click count of
\* the current local hour and of no other hour, and one to total_clicks of
\* the current local date and of no other date; key_counts,
\* hourly_key_counts, every total_keys, mouse_distance, scroll_distance
\* and recent_keys are as before.
C24_RecordClickEffect ==
    [][\A p \in Producers :
          Runs(p, "rc_write") =>
            LET label == t_arg[p].label
                hour == LocalHour(clock)
                date == LocalDate(clock)
            IN  /\ \A b \in ButtonLabels("adapter") :
                      Get(stats'.mouse_clicks, b) =
                          Get(stats.mouse_clicks, b) + (IF b = label THEN 1 ELSE 0)
                /\ \A h \in Hours :
                      Get(stats'.hourly_click_counts, h) =
                          Get(stats.hourly_click_counts, h)
                              + (IF h = hour THEN 1 ELSE 0)
                /\ \A d \in Dates :
                      daily_clicks(stats', d) =
                          daily_clicks(stats, d) + (IF d = date THEN 1 ELSE 0)
                /\ stats'.key_counts = stats.key_counts
                /\ stats'.hourly_key_counts = stats.hourly_key_counts
                /\ \A d \in Dates : daily_keys(stats', d) = daily_keys(stats, d)
                /\ stats'.mouse_distance = stats.mouse_distance
                /\ stats'.scroll_distance = stats.scroll_distance
                /\ stats'.recent_keys = stats.recent_keys]_vars

\* C24 witness: a click was counted after midnight on an aggregate that
\* held a key and a scroll of the day before
C24_Witness ==
    /\ Get(stats.mouse_clicks, "Left") = 1
    /\ Get(stats.hourly_click_counts, 0) = 1
    /\ daily_clicks(stats, "2024-01-02") = 1 /\ daily_keys(stats, "2024-01-02") = 0
    /\ daily_keys(stats, "2024-01-01") = 1 /\ daily_clicks(stats, "2024-01-01") = 0
    /\ Get(stats.key_counts, "A") = 1
    /\ Get(stats.hourly_key_counts, 23) = 1
    /\ stats.scroll_distance = 5
    /\ Len(stats.recent_keys) = 1

\* C25: the step in which Stats::record_movement(distance) runs adds the
\* distance to mouse_distance and to total_distance of the current local
\* date, whatever the aggregate held and whenever the call before it ran;
\* and a record_movement call returns without running it only when it
\* finds the lock poisoned, never because of the call before it: neither
\* dedup cell is read or written on the way.
C25_MovementAdditive ==
    /\ [][Runs("adapter", "rm_write") =>
            LET distance == t_arg["adapter"].amount
                date == LocalDate(clock)
            IN  /\ distance >= 0
                /\ stats'.mouse_distance = stats.mouse_distance + distance
                /\ \A d \in Dates :
                      daily_distance(stats', d) =
                          daily_distance(stats, d)
                              + (IF d = date THEN distance ELSE 0)
                /\ date \in DOMAIN stats'.daily_stats]_vars
    /\ [][pc["adapter"] = "rm_lock" =>
            /\ pc'["adapter"] = "idle" => stats_lock.poisoned
            /\ pc'["adapter"] \in {"rm_lock", "rm_write", "idle"}
            /\ UNCHANGED <<last_key, last_click>>]_vars
    /\ [][pc["adapter"] = "rm_write" => UNCHANGED <<last_key, last_click>>]_vars

\* C25 witness: two movements of 5 recorded at the same instant on an
\* aggregate that was empty: both are in the sum and in today's distance
C25_Witness ==
    /\ clock = 0
    /\ stats.mouse_distance = 10
    /\ today_distance(stats, clock) = 10
    /\ Fresh([stats EXCEPT !.mouse_distance = 0, !.daily_stats = EmptyMap])
    /\ pc["adapter"] = "idle"

\* the record_scroll call of the listener thread ends in this step
ScrollEnds ==
    /\ pc["adapter"] = "rs_write"
    /\ pc'["adapter"] # "rs_write" \/ ~Running'

\* C26: scroll_distance is never negative, and every record_scroll(delta)
\* that holds the write guard returns normally, leaving the lock usable
\* and the process running, with abs(delta) added to scroll_distance.
C26_ScrollAddsAbs ==
    /\ [](stats.scroll_distance >= 0)
    /\ [][ScrollEnds =>
            /\ Running'
            /\ pc'["adapter"] = "idle"
            /\ ~stats_lock'.poisoned
            /\ stats'.scroll_distance =
                  stats.scroll_distance + ScrollAbs(t_arg["adapter"].amount)
            /\ stats'.scroll_distance >= stats.scroll_distance]_vars

(***************************************************************************)
(* The typing speed as a function of the aggregate: the program has        *)
(* counted a burst of key presses, time passes and the dashboard renders.  *)
(***************************************************************************)
\* the numbers of key presses of a burst, and the time (ms) between two of
\* its presses
RateCounts == {0, 1, 5, 60, 120}
RateSteps == {250, 500}
\* the instants (ms) at which the clock is observed
RateTimePoints == {59500, 59999, 60000, 60499, 119499, 119500}

\* the instants of a burst of n key presses, the first at 0 and each one
\* `step` after the one before
Burst(n, step) == [i \in 1..n |-> (i - 1) * step]
\* how many of them fall in the local hour h, on the local date d
InHour(times, h) == Cardinality({i \in 1..Len(times) : LocalHour(times[i]) = h})
OnDate(times, d) == Cardinality({i \in 1..Len(times) : LocalDate(times[i]) = d})

\* the aggregate after record_key("A") at each instant of `times`, the
\* last of which is `last`
Typed(times, last) ==
    [NewStats(0) EXCEPT
        !.key_counts = IF times = <<>> THEN EmptyMap ELSE "A" :> Len(times),
        !.hourly_key_counts =
            [h \in {LocalHour(times[i]) : i \in 1..Len(times)} |->
                InHour(times, h)],
        !.daily_stats =
            [d \in {LocalDate(times[i]) : i \in 1..Len(times)} |->
                [DefaultDailyStats EXCEPT
                    !.total_keys = OnDate(times, d)]],
        !.recent_keys =
            SelectSeq(times, LAMBDA t : DurationSince(last, t) < WpmWindowMs)]

\* the program after such a burst, at the instant of its last press
InitRate ==
    /\ \E n \in RateCounts : \E step \in RateSteps :
          LET last == IF n = 0 THEN 0 ELSE (n - 1) * step
              s == Typed(Burst(n, step), last)
          IN  /\ stats = s
              /\ stats_snapshot = s
              /\ key_times = Burst(n, step)
              /\ clock = last
              /\ last_key = IF n = 0 THEN None
                            ELSE Some([name |-> "A", time |-> last])
              /\ events = {[kind |-> "key", date |-> d] :
                              d \in DOMAIN s.daily_stats}
    /\ stats_lock = FreeLock
    /\ last_click = None /\ last_pos = None
    /\ listener_active = TRUE /\ last_error = None
    /\ pc = [StartThreads EXCEPT !["adapter"] = "idle"]
    /\ t_now = NoLocals /\ t_arg = NoArgs /\ t_idx = NoLocals
    /\ t_hour = NoLocals
    /\ guards = NoGuards
    /\ t_json = [p \in Threads |-> <<>>]
    /\ t_off = NoLocals
    /\ t_src = [p \in Threads |-> DefaultStats]
    /\ t_res = [p \in Threads |-> <<>>]
    /\ wpm = None
    /\ top = None
    /\ phase = "running"
    /\ log = <<>>
    /\ file = None
    /\ saved = DefaultStats
    /\ build = "any"
    /\ ncalls = 0 /\ nsaves = 0 /\ nsnaps = 0 /\ nrestarts = 0

NextRate ==
    \/ \E t \in RateTimePoints : Tick(t)
    \/ Render

SpecRate == InitRate /\ [][NextRate]_vars

\* the number of recorded key presses less than 60 s old at instant now
PressesWithinMinute(now) ==
    Cardinality({i \in 1..Len(key_times) : now - key_times[i] < 60000})

\* C27: at every instant current_wpm() of the aggregate is the number of
\* key presses recorded in the 60 s before, over 5: 24 when there are 120
\* of them, and 0 once the last press is 60 s old or older; computing it
\* changes neither the aggregate nor the snapshot it is computed from.
C27_TypingRate ==
    /\ [](current_wpm(stats, clock) = <<PressesWithinMinute(clock), 5>>)
    /\ [](PressesWithinMinute(clock) = 120 =>
              current_wpm(stats, clock)[1] = 24 * current_wpm(stats, clock)[2])
    /\ []((key_times # <<>> /\ clock - key_times[Len(key_times)] >= 60000) =>
              current_wpm(stats, clock)[1] = 0)
    /\ [][wpm' # wpm =>
              /\ wpm' = Some(current_wpm(stats_snapshot, clock))
              /\ UNCHANGED <<stats, stats_snapshot>>]_vars

\* C27 witness: 120 key presses 500 ms apart, the first 59999 ms ago: the
\* typing speed rendered is 120 / 5
C27_Witness ==
    /\ Len(key_times) = 120
    /\ clock = 59999 /\ key_times[1] = 0
    /\ Len(stats.recent_keys) = 120
    /\ wpm = Some(<<120, 5>>)

(***************************************************************************)
(* The ranking of the keys: the program starts on a file that holds key    *)
(* counts, the listener thread counts more keys, the dashboard refreshes   *)
(* its snapshot and asks for the top keys.                                 *)
(***************************************************************************)
\* the keys an earlier run of the program counted, and how many presses at
\* most
TopLabels == {"A", "Left", "Space"}
MaxPressed == 4
\* the aggregate after record_key of each label of `keys`
RECURSIVE Pressed(_)
Pressed(keys) ==
    IF keys = <<>>
      THEN NewStats(0)
      ELSE Stats_record_key(Pressed(SubSeq(keys, 1, Len(keys) - 1)),
                            keys[Len(keys)], 0)
\* the aggregates the file may hold
TopSaved ==
    {Pressed(keys) : keys \in UNION {[1..n -> TopLabels] : n \in 0..MaxPressed}}

InitTop ==
    /\ \E s \in TopSaved :
          /\ file = Some(ToJson(s))
          /\ saved = s
          /\ StartProcess(Some(ToJson(s)), 0)
    /\ clock = 0
    /\ build = "any"
    /\ ncalls = 0 /\ nsaves = 0 /\ nsnaps = 0 /\ nrestarts = 0

NextTop ==
    \/ ListenerStart
    \/ \E k \in KeyLabels("adapter") : RecordKeyBegin("adapter", k)
    \/ RecordKeyGate("adapter")
    \/ RecordKeyLock("adapter")
    \/ RecordKeyWrite("adapter")
    \/ SnapshotLock
    \/ SnapshotClone
    \/ \E n \in TopSizes : TopKeys(n)

SpecTop == InitTop /\ [][NextTop]_vars

\* r is a list of entries of key_counts of s with their counts, no key
\* twice, min(n, number of keys) long, in non-increasing order of count,
\* and no key left out has a larger count than a key of the list
IsTop(r, s, n) ==
    LET kc == s.key_counts
        size == Cardinality(DOMAIN kc)
        listed == {r[i][1] : i \in 1..Len(r)}
    IN  /\ Len(r) = (IF n < size THEN n ELSE size)
        /\ \A i \in 1..Len(r) : r[i][1] \in DOMAIN kc /\ r[i][2] = kc[r[i][1]]
        /\ \A i, j \in 1..Len(r) : i # j => r[i][1] # r[j][1]
        /\ \A i, j \in 1..Len(r) : i < j => r[i][2] >= r[j][2]
        /\ \A k \in DOMAIN kc \ listed : \A i \in 1..Len(r) : kc[k] <= r[i][2]

\* C28: whatever the order in which the map iterates, top_keys(n) of the
\* aggregate is such a list; and the call of the dashboard returns such a
\* list of its snapshot and changes neither the snapshot nor the
\* aggregate.
C28_TopKeys ==
    /\ [](\A n \in TopSizes : \A order \in IterOrders(stats.key_counts) :
              IsTop(top_keys(stats, order, n), stats, n))
    /\ [][top' # top =>
              /\ IsTop(Unwrap(top').keys, stats_snapshot, Unwrap(top').n)
              /\ UNCHANGED <<stats, stats_snapshot>>]_vars

\* C28 witness: of three keys the dashboard asked for the top two: Space,
\* counted twice, then one of the two keys counted once; A was left out
C28_Witness ==
    /\ stats_snapshot.key_counts = [k \in TopLabels |-> IF k = "Space" THEN 2 ELSE 1]
    /\ top = Some([n |-> 2, keys |-> <<<<"Space", 2>>, <<"Left", 1>>>>])

(***************************************************************************)
(* Properties of the listener's callback                                   *)
(***************************************************************************)
\* the callback enters record_movement in this step
MovementBegins == pc["adapter"] # "rm_lock" /\ pc'["adapter"] = "rm_lock"
\* d is the Euclidean distance between the positions a and b
IsEuclidean(d, a, b) ==
    /\ d >= 0
    /\ d * d = (b[1] - a[1]) * (b[1] - a[1]) + (b[2] - a[2]) * (b[2] - a[2])

\* C29: the step that gives last_pos its first value begins no
\* record_movement call and leaves the aggregate as it is; record_movement
\* is only ever begun by a report that finds a baseline, is then given the
\* Euclidean distance from that baseline to the reported position, which
\* becomes the baseline; the call adds that distance once when it holds
\* the write guard, and mouse_distance changes in no other step; a
\* baseline is never forgotten and changes only with a report.
C29_MouseBaseline ==
    /\ [][(last_pos = None /\ last_pos' # None) =>
            /\ ~MovementBegins
            /\ UNCHANGED <<pc, stats, stats_lock>>]_vars
    /\ [][MovementBegins =>
            /\ pc["adapter"] = "idle"
            /\ IsSome(last_pos) /\ IsSome(last_pos')
            /\ IsEuclidean(t_arg'["adapter"].amount, Unwrap(last_pos), Unwrap(last_pos'))
            /\ UNCHANGED stats]_vars
    /\ [][stats'.mouse_distance # stats.mouse_distance =>
            /\ Runs("adapter", "rm_write")
            /\ stats'.mouse_distance = stats.mouse_distance + t_arg["adapter"].amount]_vars
    /\ [][pc["adapter"] = "rm_write" =>
            pc'["adapter"] = "rm_write" \/ Runs("adapter", "rm_write")]_vars
    /\ [][last_pos' # last_pos =>
            /\ IsSome(last_pos')
            /\ last_pos = None \/ MovementBegins]_vars

\* C29 witness: the hook reported (0, 0), which only set the baseline, and
\* then (3, 4): one movement of 5 was recorded and (3, 4) is the baseline
C29_Witness ==
    /\ ncalls = 2
    /\ last_pos = Some(<<3, 4>>)
    /\ stats.mouse_distance = 5
    /\ today_distance(stats, clock) = 5
    /\ pc["adapter"] = "idle"

\* the click candidates of log with label l that were counted
CountedClicks(l) ==
    Cardinality({i \in LogIdx : /\ log[i].ch = "click" /\ log[i].name = l
                                /\ log[i].counted})

\* C30: a KeyRelease or ButtonRelease event changes neither the aggregate
\* nor its lock, neither dedup cell, nor the baseline, and begins no call;
\* so every count of a key or of a button is the number of its presses
\* that were counted, whatever releases were delivered in between.
C30_ReleaseIgnored ==
    /\ [][(KeyRelease \/ ButtonRelease) =>
            UNCHANGED <<stats, stats_lock, last_key, last_click, last_pos,
                        pc, log>>]_vars
    /\ [](\A l \in AllKeyLabels : Get(stats.key_counts, l) = CountedKeys(l))
    /\ [](\A b \in ButtonLabels("adapter") :
              Get(stats.mouse_clicks, b) = CountedClicks(b))

\* C30 witness: the hook delivered the press of A and then a release: A
\* is counted once
C30_Witness ==
    /\ ncalls = 2
    /\ Len(log) = 1 /\ log[1].ch = "key" /\ log[1].counted
    /\ Get(stats.key_counts, "A") = 1
    /\ today_keys(stats, clock) = 1
    /\ last_key = Some([name |-> "A", time |-> 0])
    /\ last_click = None /\ last_pos = None
    /\ stats.scroll_distance = 0 /\ stats.mouse_clicks = EmptyMap
    /\ ~stats_lock.poisoned /\ Running
    /\ pc["adapter"] = "idle"

(***************************************************************************)
(* The aggregate under its producers and its readers, statement by         *)
(* statement while time passes: the listener thread and the dashboard      *)
(* handlers submit at most MaxViewCalls events, the dashboard takes        *)
(* snapshots and the periodic thread saves.                                *)
(***************************************************************************)
MaxViewCalls == 2

NextView ==
    /\ \/ Tick(Midnight)
       \/ ListenerStart
       \/ \E p \in Producers : \E k \in KeyLabels(p) : RecordKeyBegin(p, k)
       \/ \E p \in Producers : RecordKeyGate(p)
       \/ \E p \in Producers : RecordKeyLock(p)
       \/ \E p \in Producers : RecordKeyCount(p)
       \/ \E p \in Producers : RecordKeyHour(p)
       \/ \E p \in Producers : RecordKeyDay(p)
       \/ \E p \in Producers : RecordKeyRecent(p)
       \/ \E b \in ButtonLabels("adapter") : RecordClickBegin("adapter", b)
       \/ RecordClickGate("adapter")
       \/ RecordClickLock("adapter")
       \/ RecordClickCount("adapter")
       \/ RecordClickHour("adapter")
       \/ RecordClickDay("adapter")
       \/ \E pos \in Positions : MouseMove(pos)
       \/ RecordMovementLock
       \/ RecordMovementAdd
       \/ RecordMovementDay
       \/ SnapshotLock
       \/ SnapshotClone
       \/ SaveLock("timer")
       \/ SaveOpen("timer")
       \/ SaveWritePart("timer")
       \/ SaveWrite("timer")
    /\ ncalls' <= MaxViewCalls

SpecView == Init /\ [][NextView]_vars

(***************************************************************************)
(* Properties of what the readers see                                      *)
(***************************************************************************)
\* map.values().sum()
RECURSIVE SumOf(_)
SumOf(m) ==
    IF DOMAIN m = {} THEN 0
    ELSE LET k == CHOOSE k \in DOMAIN m : TRUE
         IN  m[k] + SumOf([j \in DOMAIN m \ {k} |-> m[j]])
\* the sum of field f over the days of s
DailySum(s, f) == SumOf([d \in DOMAIN s.daily_stats |-> s.daily_stats[d][f]])
\* s holds whole record operations only
Consistent(s) ==
    /\ SumOf(s.key_counts) = SumOf(s.hourly_key_counts)
    /\ SumOf(s.key_counts) = DailySum(s, "total_keys")
    /\ SumOf(s.mouse_clicks) = SumOf(s.hourly_click_counts)
    /\ SumOf(s.mouse_clicks) = DailySum(s, "total_clicks")
    /\ s.mouse_distance = DailySum(s, "total_distance")

C32_SuppressedIff ==
    /\ \A i \in LogIdx :
          LET j == LastAccBefore(i)
          IN  /\ ~log[i].acc <=>
                    /\ j # 0
                    /\ log[j].name = log[i].name
                    /\ log[i].t - log[j].t < DedupWindowMs
              /\ (log[i].acc /\ j # 0 /\ log[j].name = log[i].name) =>
                    log[i].t - log[j].t >= DedupWindowMs
    /\ LET ks == OnChannel("key")
       IN  (/\ KeysQuiet /\ Len(ks) = 3
            /\ ks[1].name = "A" /\ ks[2].name = "Left" /\ ks[3].name = "A"
            /\ ks[1].t <= ks[2].t /\ ks[2].t <= ks[3].t
            /\ ks[3].t - ks[1].t < DedupWindowMs) =>
               /\ \A i \in 1..3 : ks[i].acc
               /\ stats.key_counts["A"] = 2

\* C32 witness: the keys A, Left, A were delivered within 10 ms and A is
\* counted twice
C32_Witness ==
    LET ks == OnChannel("key")
    IN  /\ KeysQuiet /\ Len(ks) = 3
        /\ ks[1].name = "A" /\ ks[2].name = "Left" /\ ks[3].name = "A"
        /\ ks[1].t = 0 /\ ks[3].t = 10
        /\ \A i \in 1..3 : ks[i].counted
        /\ stats.key_counts["A"] = 2
        /\ last_key = Some([name |-> "A", time |-> 10])

(***************************************************************************)
(* Properties of the hour and the date of one event                        *)
(***************************************************************************)
\* hour h and date d are those of one instant
SameInstant(h, d) ==
    \E t \in TimePoints : LocalHour(t) = h /\ LocalDate(t) = d

\* C33: the date entry a record_key or record_click call increments is the
\* date of the instant whose hour the call has incremented.
C33_HourAndDateAgree ==
    [][\A p \in Producers :
          (pc[p] \in {"rk_day", "rc_day"} /\ pc'[p] # pc[p]) =>
              \A d \in DOMAIN stats'.daily_stats :
                  DailyEntry(stats.daily_stats, d) # stats'.daily_stats[d] =>
                      SameInstant(t_hour[p], d)]_vars

(***************************************************************************)
(* The four locks of the store under the listener thread, the dashboard    *)
(* and the periodic thread, at one instant: the guards of last_key,        *)
(* last_click and last_error are taken and dropped in steps of their own,  *)
(* for at most MaxLockCalls key, click and wheel events.  A thread that    *)
(* can run does run, and a thread that waits for a lock gets it if the     *)
(* lock is free again and again.                                           *)
(***************************************************************************)
MaxLockCalls == 2

\* thread p takes a lock
Acquire(p) ==
    \/ GateLock(p, "rk_gate", "rk_check", "last_key")
    \/ GateLock(p, "rc_gate", "rc_check", "last_click")
    \/ RecordKeyLock(p)
    \/ RecordClickLock(p)
    \/ p = "adapter" /\ (RecordScrollLock \/ ListenErrorLock)
    \/ p = "ui" /\ (SnapshotLock \/ GetErrorLock)
    \/ p = "timer" /\ SaveLock(p)

\* thread p goes on inside a call, in a step that waits for no lock
Proceed(p) ==
    \/ RecordKeyCheck(p)
    \/ RecordKeyWrite(p)
    \/ RecordClickCheck(p)
    \/ RecordClickWrite(p)
    \/ p = "adapter" /\ \/ RecordScrollWrite
                        \/ RecordScrollPanic
                        \/ RecordScrollAbort
                        \/ ListenErrorStore
    \/ p = "ui" /\ (SnapshotClone \/ GetErrorClone)
    \/ p = "timer" /\ (SaveOpen(p) \/ SaveWrite(p))

NextLocks ==
    /\ \/ ListenerStart
       \/ ListenFails
       \/ \E p \in Producers : \E k \in KeyLabels(p) : RecordKeyBegin(p, k)
       \/ \E p \in Producers : \E b \in ButtonLabels(p) : RecordClickBegin(p, b)
       \/ \E d \in ScrollDeltas : Wheel(d)
       \/ \E p \in Threads : Acquire(p)
       \/ \E p \in Threads : Proceed(p)
    /\ ncalls' <= MaxLockCalls /\ nsaves' <= MaxStoreSaves
    /\ nsnaps' <= MaxStoreSnaps

SpecLocks ==
    /\ Init
    /\ [][NextLocks]_vars
    /\ \A p \in Threads : SF_where_vars(Acquire(p))
    /\ \A p \in Threads : WF_where_vars(Proceed(p))

(***************************************************************************)
(* Properties of the locks                                                 *)
(***************************************************************************)
\* the locks of the store thread p holds a guard of
HeldLocks(p) ==
    guards[p] \cup (IF stats_lock.writer = Some(p) \/ p \in stats_lock.readers
                      THEN {"stats"} ELSE {})
\* thread p is inside a record_*, snapshot, save or error accessor call
InCall(p) ==
    pc[p] \in {"rk_gate", "rk_check", "rk_lock", "rk_write",
               "rc_gate", "rc_check", "rc_lock", "rc_write",
               "rm_lock", "rm_write", "rs_lock", "rs_write",
               "sn_clone", "sv_open", "sv_write", "ls_store", "ge_read"}

C35_CompleteAtInterruptExit ==
    (/\ phase = "exited"
     /\ pc["ctrlc"] = "exit" /\ pc["ui"] = "idle"
     /\ t_res["ctrlc"] # <<>> /\ LastResult("ctrlc") = "ok")
        => IsSome(file) /\ Parses(Unwrap(file))

\* thread p is in save() and holds its read guard
InSave(p) == pc[p] \in {"sv_open", "sv_write"}

\* C36: two saves that overlap serialize the same aggregate, and when a
\* save of the periodic thread or of the Ctrl-C handler returns Ok and
\* leaves no other save in flight (the window is open and main saves
\* nothing), the file is the serialization of the aggregate that save read.
C36_OverlappingSaves ==
    /\ [](\A p, q \in Savers : (InSave(p) /\ InSave(q)) => t_src[p] = t_src[q])
    /\ [][\A p \in {"timer", "ctrlc"} :
             (/\ SaveReturns(p) /\ LastResult(p)' = "ok"
              /\ pc'["ui"] = "idle"
              /\ \A q \in Savers : ~InSave(q)') =>
                 file' = Some(ToJson(t_src[p]))]_vars

(***************************************************************************)
(* Successive snapshots: both producers submit at most MaxMonoCalls key    *)
(* and wheel events at one instant while the dashboard takes snapshots.    *)
(***************************************************************************)
MaxMonoCalls == 2

NextMono ==
    /\ \/ ListenerStart
       \/ \E p \in Producers : \E k \in KeyLabels(p) : RecordKeyBegin(p, k)
       \/ \E p \in Producers : RecordKeyGate(p)
       \/ \E p \in Producers : RecordKeyLock(p)
       \/ \E p \in Producers : RecordKeyWrite(p)
       \/ \E d \in ScrollDeltas : Wheel(d)
       \/ RecordScrollLock
       \/ RecordScrollWrite
       \/ RecordScrollPanic
       \/ RecordScrollAbort
       \/ SnapshotLock
       \/ SnapshotClone
    /\ ncalls' <= MaxMonoCalls

SpecMono == Init /\ [][NextMono]_vars

\* C37: no count field of a snapshot is smaller than it was in the
\* snapshot the dashboard took before.
C37_SnapshotsMonotone ==
    [][CountsLeq(stats_snapshot, stats_snapshot')]_vars

(***************************************************************************)
(* Properties of the liveness flag and the error slot                      *)
(***************************************************************************)
\* C38: the flag is false until the listener thread starts and from the
\* moment listen has returned an error; only the start of the listener
\* thread sets it; the error is stored while the flag is false; so whenever
\* get_listener_error returns a message, is_listener_active returns false.
C38_FlagBeforeError ==
    /\ [](pc["adapter"] = "spawned" => ~is_listener_active)
    /\ [](pc["adapter"] \in {"ls_err", "ls_store", "failed"} =>
              ~is_listener_active)
    /\ [][/\ (~listener_active /\ listener_active') => pc["adapter"] = "spawned"
          /\ last_error' # last_error => ~listener_active /\ ~listener_active'
         ]_vars
    /\ [](IsSome(get_listener_error) => ~is_listener_active)

\* C38 witness: a key was counted, listen failed, the
\* message is stored, and the dashboard thread reads it under its guard of
\* last_error while the flag is false
C38_Witness ==
    /\ pc["adapter"] = "failed"
    /\ pc["ui"] = "ge_read" /\ "last_error" \in guards["ui"]
    /\ get_listener_error = Some("error") /\ ~is_listener_active
    /\ Get(stats.key_counts, "A") = 1

=============================================================================
